---- MODULE Spec2Model ----
(***************************************************************************)
(* Model of the cognitive core of CogWSL (src/shared/cognitive/cognitive.cpp,*)
(* src/shared/inc/cognitive.h): Atom, AtomSpace, CognitiveAgent,           *)
(* CognitiveSystem.                                                        *)
(*                                                                         *)
(* Floats are fixed-point integers in thousandths (One = 1.0f).  Strings   *)
(* are sequences of one-character strings, so that prefixing, substr and   *)
(* find are computed on characters as the code computes them.  Atoms live  *)
(* in a heap indexed by their id (a shared_ptr is the id of the atom it    *)
(* points to); the two tables of the AtomSpace map keys to such pointers.  *)
(***************************************************************************)
EXTENDS Integers, Sequences, FiniteSets, TLC

VARIABLES
    heap,            \* every Atom object constructed so far, by id
    s_nextId,        \* Atom::s_nextId
    m_atoms,         \* AtomSpace::m_atoms       : id   -> atom pointer
    m_atomsByName,   \* AtomSpace::m_atomsByName : name -> atom pointer
    agents,          \* the CognitiveAgent objects constructed so far (by name)
    m_state,         \* CognitiveAgent::m_state, per agent
    m_shouldStop,    \* CognitiveAgent::m_shouldStop, per agent
    thread,          \* CognitiveAgent::m_processingThread: "none" | "running" | "finished"
    pc,              \* position of the agent's ProcessingLoop
    m_goals,         \* CognitiveAgent::m_goals, per agent (sequence of atom pointers)
    m_memories,      \* CognitiveAgent::m_memories, per agent
    caller,          \* the agents whose Stop() is blocked in join (the calling thread)
    terminated,      \* std::terminate() was called (the process is gone)
    budget,          \* cycles and calls the model still explores (see MaxCycles, MaxCalls)
    paused,          \* history: "requested" once Pause() took a running agent Active ->
                     \* Inactive, "waited" once its thread has since passed the timed
                     \* wait, "no" after Start/Resume/Stop
    lastOp,          \* history: the last API call or stage, with its inputs and result
    m_initialized,   \* CognitiveSystem::m_initialized
    m_agents,        \* CognitiveSystem::m_agents : name -> agent object (its serial number)
    m_configuration, \* CognitiveSystem::m_configuration : key -> value
    constructed,     \* the number of CognitiveAgent objects CreateAgent has constructed
    sysCall,         \* the Shutdown/RemoveAgent call in progress (blocked in Stop), if any
    manager          \* the CognitiveIntegrationManager: m_initialized, whether
                     \* m_cognitiveSystem is set, m_stats and m_processMapping

vars == <<heap, s_nextId, m_atoms, m_atomsByName, agents, m_state, m_shouldStop,
          thread, pc, m_goals, m_memories, caller, terminated, budget, paused, lastOp,
          m_initialized, m_agents, m_configuration, constructed, sysCall, manager>>

storeVars == <<heap, s_nextId, m_atoms, m_atomsByName>>

sysVars == <<m_initialized, m_agents, m_configuration, constructed, sysCall, manager>>

agentVars == <<agents, m_state, m_shouldStop, thread, pc, m_goals, m_memories,
               caller, terminated, paused, sysVars>>

(***************************************************************************)
(* Fixed-point scale and the numeric constants of the code.                *)
(***************************************************************************)
One == 1000

DefaultAttention == 500

AgentAttention == 1000

PerceiveThreshold == 700

MemoryLimit == 1000

MemoryTrim == 100

\* UpdateAttentionValues, line 168: std::max(0.01f, newAttention)
AttentionFloor == 10

(***************************************************************************)
(* Bounds of the model.                                                    *)
(***************************************************************************)
MaxId == 4

MaxCycles == 3

MaxCalls == 2

MaxConstructed == 2

\* The number of consecutive Act() calls explored.
MaxActs == 6

(***************************************************************************)
(* Characters and strings.                                                 *)
(***************************************************************************)
StrSelf == <<"S", "e", "l", "f">>

StrSystem == <<"S", "y", "s", "t", "e", "m">>

StrWSL == <<"W", "S", "L">>

StrPerceived == <<"P", "e", "r", "c", "e", "i", "v", "e", "d", ":">>

StrMessage == <<"M", "e", "s", "s", "a", "g", "e", ":">>

StrPlan == <<"P", "l", "a", "n", ":">>

StrRule == <<"R", "u", "l", "e", ":">>

StrAgent == <<"A", "g", "e", "n", "t", ":">>

StrColon == <<":">>

\* std::string::substr(pos, n): the characters from pos (0-based), at most n.
\* The callers of this model never pass pos > size (which would throw).
Substr(s, pos, n) ==
    SubSeq(s, pos + 1, IF pos + n > Len(s) THEN Len(s) ELSE pos + n)

\* std::string::substr(pos): the rest of the string from pos.
SubstrFrom(s, pos) == SubSeq(s, pos + 1, Len(s))

\* std::string::find(needle) != npos
Contains(s, needle) ==
    \E i \in 0..(Len(s) - Len(needle)) : SubSeq(s, i + 1, i + Len(needle)) = needle

(***************************************************************************)
(* Atom                                                                    *)
(***************************************************************************)
AtomTypes == {"Concept", "Link", "Process", "Agent", "Rule", "Goal", "Memory"}

\* Mutant of Clamp: the lower bound is not applied.
ClampUpperOnly(v, lo, hi) == IF hi < v THEN hi ELSE v

\* std::clamp(v, lo, hi)
Clamp(v, lo, hi) == IF v < lo THEN lo ELSE IF hi < v THEN hi ELSE v

\* Atom::Atom: the fields as the constructor initialises them.
NewAtom(type, name, id, truthValue, confidence) ==
    [type |-> type, name |-> name, id |-> id,
     truth |-> truthValue, confidence |-> confidence,
     attention |-> DefaultAttention,
     incoming |-> <<>>, outgoing |-> <<>>]

\* Atom::SetTruthValue applied to the atom record a.
SetTruthValue(a, truth, confidence) ==
    [a EXCEPT !.truth = Clamp(truth, 0, One),
              !.confidence = Clamp(confidence, 0, One)]

\* Atom::SetAttention applied to the atom record a.
SetAttention(a, attention) == [a EXCEPT !.attention = attention]

(***************************************************************************)
(* AtomSpace                                                               *)
(***************************************************************************)
\* The store as one value, so that an operation is a function on stores.
Store == [heap |-> heap, nextId |-> s_nextId, atoms |-> m_atoms, byName |-> m_atomsByName]

\* Mutant of CreateAtom: update-if-exists, the existing atom takes the new values.
CreateAtomUpdating(st, type, name, truthValue, confidence) ==
    IF name \in DOMAIN st.byName
    THEN [store |-> [st EXCEPT !.heap[st.byName[name]] =
                        [@ EXCEPT !.truth = truthValue, !.confidence = confidence]],
          ret |-> st.byName[name]]
    ELSE LET id == st.nextId
             atom == NewAtom(type, name, id, truthValue, confidence)
         IN [store |-> [heap |-> [k \in DOMAIN st.heap \cup {id} |->
                                     IF k = id THEN atom ELSE st.heap[k]],
                        nextId |-> id + 1,
                        atoms |-> [k \in DOMAIN st.atoms \cup {atom.id} |->
                                     IF k = atom.id THEN id ELSE st.atoms[k]],
                        byName |-> [n \in DOMAIN st.byName \cup {name} |->
                                     IF n = name THEN id ELSE st.byName[n]]],
             ret |-> id]

\* AtomSpace::CreateAtom on store st: the store afterwards and the pointer returned.
CreateAtom(st, type, name, truthValue, confidence) ==
    IF name \in DOMAIN st.byName
    THEN [store |-> st, ret |-> st.byName[name]]
    ELSE LET id == st.nextId
             atom == NewAtom(type, name, id, truthValue, confidence)
         IN [store |-> [heap |-> [k \in DOMAIN st.heap \cup {id} |->
                                     IF k = id THEN atom ELSE st.heap[k]],
                        nextId |-> id + 1,
                        atoms |-> [k \in DOMAIN st.atoms \cup {atom.id} |->
                                     IF k = atom.id THEN id ELSE st.atoms[k]],
                        byName |-> [n \in DOMAIN st.byName \cup {name} |->
                                     IF n = name THEN id ELSE st.byName[n]]],
             ret |-> id]

\* Mutant of RemoveAtom: the removed node is also taken out of the other
\* nodes' outgoing links.
RemoveAtomScrubbing(st, id) ==
    IF id \notin DOMAIN st.atoms
    THEN [store |-> st, ret |-> FALSE]
    ELSE LET p == st.atoms[id]
             Other(q) == q # p
         IN [store |-> [heap |-> [k \in DOMAIN st.heap |->
                                     [st.heap[k] EXCEPT !.outgoing = SelectSeq(@, Other)]],
                        nextId |-> st.nextId,
                        atoms |-> [k \in DOMAIN st.atoms \ {id} |-> st.atoms[k]],
                        byName |-> [n \in DOMAIN st.byName \ {st.heap[p].name} |->
                                       st.byName[n]]],
             ret |-> TRUE]

\* Mutant of RemoveAtom: the name stays bound.
RemoveAtomKeepingName(st, id) ==
    IF id \notin DOMAIN st.atoms
    THEN [store |-> st, ret |-> FALSE]
    ELSE [store |-> [st EXCEPT !.atoms = [k \in DOMAIN st.atoms \ {id} |-> st.atoms[k]]],
          ret |-> TRUE]

\* AtomSpace::RemoveAtom on store st: the store afterwards and the bool returned.
RemoveAtom(st, id) ==
    IF id \notin DOMAIN st.atoms
    THEN [store |-> st, ret |-> FALSE]
    ELSE LET atom == st.heap[st.atoms[id]]
         IN [store |-> [st EXCEPT
                          !.byName = [n \in DOMAIN st.byName \ {atom.name} |-> st.byName[n]],
                          !.atoms = [k \in DOMAIN st.atoms \ {id} |-> st.atoms[k]]],
             ret |-> TRUE]

\* AtomSpace::Clear on store st.
Clear(st) == [st EXCEPT !.atoms = <<>>, !.byName = <<>>]

\* AtomSpace::AtomSpace: the three fundamental atoms, created in order.
NewAtomSpace ==
    LET s0 == [heap |-> <<>>, nextId |-> 1, atoms |-> <<>>, byName |-> <<>>]
        s1 == CreateAtom(s0, "Concept", StrSelf, One, One).store
        s2 == CreateAtom(s1, "Concept", StrSystem, One, One).store
    IN CreateAtom(s2, "Concept", StrWSL, One, One).store

\* AtomSpace::GetAtomCount
GetAtomCount(st) == Cardinality(DOMAIN st.atoms)

Reverse(s) == [i \in 1..Len(s) |-> s[Len(s) + 1 - i]]

\* The orders in which a range-for over the unordered_map m_atoms visits the
\* table: unspecified by the language; the model takes the ascending and the
\* descending key order.
TableOrders(st) ==
    LET keys == DOMAIN st.atoms
        asc == [i \in 1..Cardinality(keys) |->
                   st.atoms[CHOOSE k \in keys : Cardinality({j \in keys : j <= k}) = i]]
    IN {asc, Reverse(asc)}

\* The position of pointer p in the visiting order.
Position(order, p) == CHOOSE i \in DOMAIN order : order[i] = p

\* AtomSpace::Query: the pointers whose atom satisfies the predicate, in table
\* order.  The predicate is given as its value on the atom behind each pointer.
Query(st, order, predicate) ==
    LET Test(p) == predicate[p]
    IN SelectSeq(order, Test)

\* AtomSpace::FindAtomsByType
FindAtomsByType(st, order, type) ==
    LET IsType(a) == a.type = type
    IN Query(st, order, [p \in DOMAIN st.heap |-> IsType(st.heap[p])])

\* A store with the atom at pointer p replaced by the record a.
WithAtom(st, p, a) == [st EXCEPT !.heap[p] = a]

SeqContains(s, x) == \E i \in 1..Len(s) : s[i] = x

\* The null std::shared_ptr<Atom>; atoms are at pointers 1, 2, ...
Null == 0

\* Mutant of AddOutgoingLink: std::find is not consulted.
AddOutgoingLinkUnchecked(a, target) ==
    IF target = Null THEN a
    ELSE [a EXCEPT !.outgoing = Append(a.outgoing, target)]

\* Atom::AddOutgoingLink applied to the atom record a.
AddOutgoingLink(a, target) ==
    IF target = Null \/ SeqContains(a.outgoing, target) THEN a
    ELSE [a EXCEPT !.outgoing = Append(a.outgoing, target)]

\* Atom::AddIncomingLink applied to the atom record a.
AddIncomingLink(a, target) ==
    IF target = Null \/ SeqContains(a.incoming, target) THEN a
    ELSE [a EXCEPT !.incoming = Append(a.incoming, target)]

Max(x, y) == IF x < y THEN y ELSE x

\* Mutant of Decayed: the floor is not applied.
DecayedUnfloored(attention) == (attention * 95) \div 100

\* UpdateAttentionValues, lines 157 and 168: std::max(0.01f, currentAttention * 0.95f)
Decayed(attention) == Max(AttentionFloor, (attention * 95) \div 100)

\* Mutant of SpreadAmount: the amount is taken from the targets.
SpreadAmountTaken(attention, n) == 0 - ((attention \div 10) \div n)

\* UpdateAttentionValues, line 162: currentAttention * 0.1f / outgoing.size()
SpreadAmount(attention, n) == (attention \div 10) \div n

\* UpdateAttentionValues, lines 163-165: the targets raised one after the other.
RECURSIVE SpreadTo(_, _, _)
SpreadTo(h, targets, amount) ==
    IF targets = <<>> THEN h
    ELSE SpreadTo([h EXCEPT ![Head(targets)] = SetAttention(@, @.attention + amount)],
                  Tail(targets), amount)

\* Mutant of UpdateAttentionLoop: the table is visited from its last entry to
\* its first.
RECURSIVE UpdateAttentionLoopBackwards(_, _)
UpdateAttentionLoopBackwards(h, order) ==
    IF order = <<>> THEN h
    ELSE LET p == order[Len(order)]
             currentAttention == h[p].attention
             outgoing == h[p].outgoing
             spread == IF outgoing = <<>> THEN h
                       ELSE SpreadTo(h, outgoing,
                                     SpreadAmount(currentAttention, Len(outgoing)))
         IN UpdateAttentionLoopBackwards(
                [spread EXCEPT ![p] = SetAttention(@, Decayed(currentAttention))],
                SubSeq(order, 1, Len(order) - 1))

\* UpdateAttentionValues, lines 153-169: the loop over the table, on the heap h.
RECURSIVE UpdateAttentionLoop(_, _)
UpdateAttentionLoop(h, order) ==
    IF order = <<>> THEN h
    ELSE LET p == Head(order)
             currentAttention == h[p].attention
             outgoing == h[p].outgoing
             spread == IF outgoing = <<>> THEN h
                       ELSE SpreadTo(h, outgoing,
                                     SpreadAmount(currentAttention, Len(outgoing)))
         IN UpdateAttentionLoop(
                [spread EXCEPT ![p] = SetAttention(@, Decayed(currentAttention))],
                Tail(order))

\* AtomSpace::UpdateAttentionValues, visiting the table in the given order.
UpdateAttentionValues(st, order) ==
    [st EXCEPT !.heap = UpdateAttentionLoop(st.heap, order)]

SetInit(st) ==
    /\ heap = st.heap
    /\ s_nextId = st.nextId
    /\ m_atoms = st.atoms
    /\ m_atomsByName = st.byName

SetStore(st) ==
    /\ heap' = st.heap
    /\ s_nextId' = st.nextId
    /\ m_atoms' = st.atoms
    /\ m_atomsByName' = st.byName

(***************************************************************************)
(* CognitiveAgent: the cycle stages, as functions of the store and of the  *)
(* agent's lists.                                                          *)
(***************************************************************************)
AgentStates == {"Inactive", "Active", "Learning", "Planning", "Executing",
                "SelfModifying", "Error"}

\* Mutant of PerceiveLoop: each memory is appended twice.
RECURSIVE PerceiveLoopAppendsTwice(_, _, _)
PerceiveLoopAppendsTwice(st, mems, list) ==
    IF list = <<>> THEN [store |-> st, memories |-> mems]
    ELSE LET atom == st.heap[Head(list)]
             r == CreateAtom(st, "Memory", StrPerceived \o atom.name,
                             atom.truth, atom.confidence)
         IN PerceiveLoopAppendsTwice(r.store, Append(Append(mems, r.ret), r.ret),
                                     Tail(list))

\* Perceive, lines 286-293: one memory per perceived atom, appended to the list.
RECURSIVE PerceiveLoop(_, _, _)
PerceiveLoop(st, mems, list) ==
    IF list = <<>> THEN [store |-> st, memories |-> mems]
    ELSE LET atom == st.heap[Head(list)]
             r == CreateAtom(st, "Memory", StrPerceived \o atom.name,
                             atom.truth, atom.confidence)
         IN PerceiveLoop(r.store, Append(mems, r.ret), Tail(list))

\* CognitiveAgent::Perceive (without its write of m_state).
Perceive(st, mems, order) ==
    LET High(a) == a.attention > PerceiveThreshold
    IN PerceiveLoop(st, mems, Query(st, order, [p \in DOMAIN st.heap |-> High(st.heap[p])]))

\* Reason, lines 308-313: the related atoms updated one after the other.
RECURSIVE ReasonRelated(_, _, _)
ReasonRelated(st, memory, list) ==
    IF list = <<>> THEN st
    ELSE LET related == st.heap[Head(list)]
             newTruth == (related.truth + st.heap[memory].truth) \div 2
             upd == SetTruthValue(related, newTruth, (related.confidence * 11) \div 10)
         IN ReasonRelated(WithAtom(st, Head(list), upd), memory, Tail(list))

\* Reason, lines 300-314, for one memory of the list.
ReasonOne(st, memory, order) ==
    LET key == SubstrFrom(st.heap[memory].name, 9)
        Related(a) == a.type = "Concept" /\ Contains(a.name, key)
    IN ReasonRelated(st, memory, Query(st, order, [p \in DOMAIN st.heap |-> Related(st.heap[p])]))

\* Reason's loop over m_memories[lo..hi], in list order.  The list is split in
\* halves, and the first half is evaluated (left = left) before the second
\* starts, to keep the evaluation shallow on a long list.
RECURSIVE ReasonRange(_, _, _, _, _)
ReasonRange(st, mems, order, lo, hi) ==
    IF lo > hi THEN st
    ELSE IF lo = hi THEN ReasonOne(st, mems[lo], order)
    ELSE LET mid == (lo + hi) \div 2
             left == ReasonRange(st, mems, order, lo, mid)
         IN IF left = left
            THEN ReasonRange(left, mems, order, mid + 1, hi)
            ELSE st

\* CognitiveAgent::Reason
Reason(st, mems, order) == ReasonRange(st, mems, order, 1, Len(mems))

\* Mutant of Plan: the plan node is created but the goal is not linked to it.
RECURSIVE PlanWithoutLink(_, _)
PlanWithoutLink(st, goals) ==
    IF goals = <<>> THEN st
    ELSE LET g == Head(goals)
         IN IF st.heap[g].truth < 800
            THEN PlanWithoutLink(CreateAtom(st, "Process", StrPlan \o st.heap[g].name,
                                            500, 800).store,
                                 Tail(goals))
            ELSE PlanWithoutLink(st, Tail(goals))

\* CognitiveAgent::Plan
RECURSIVE Plan(_, _)
Plan(st, goals) ==
    IF goals = <<>> THEN st
    ELSE LET g == Head(goals)
         IN IF st.heap[g].truth < 800
            THEN LET r == CreateAtom(st, "Process", StrPlan \o st.heap[g].name, 500, 800)
                 IN Plan(WithAtom(r.store, g, AddOutgoingLink(r.store.heap[g], r.ret)),
                         Tail(goals))
            ELSE Plan(st, Tail(goals))

\* Act, lines 339-343: the plan's incoming Goal atoms.
RECURSIVE ActIncoming(_, _)
ActIncoming(st, list) ==
    IF list = <<>> THEN st
    ELSE LET incoming == st.heap[Head(list)]
         IN IF incoming.type = "Goal"
            THEN ActIncoming(WithAtom(st, Head(list),
                                 SetTruthValue(incoming, incoming.truth + 50,
                                               incoming.confidence)),
                             Tail(list))
            ELSE ActIncoming(st, Tail(list))

\* Mutant of ActLoop: every Process atom above 0.4 is advanced, whatever its name.
RECURSIVE ActLoopAnyName(_, _)
ActLoopAnyName(st, plans) ==
    IF plans = <<>> THEN st
    ELSE LET p == Head(plans)
             plan == st.heap[p]
         IN IF plan.truth > 400
            THEN ActLoopAnyName(WithAtom(st, p, SetTruthValue(plan, plan.truth + 100,
                                                              plan.confidence)),
                                Tail(plans))
            ELSE ActLoopAnyName(st, Tail(plans))

\* Act, lines 333-345: the loop over the Process atoms found.
RECURSIVE ActLoop(_, _)
ActLoop(st, plans) ==
    IF plans = <<>> THEN st
    ELSE LET p == Head(plans)
             plan == st.heap[p]
         IN IF Substr(plan.name, 0, 5) = StrPlan /\ plan.truth > 400
            THEN LET s1 == WithAtom(st, p, SetTruthValue(plan, plan.truth + 100,
                                                         plan.confidence))
                 IN ActLoop(ActIncoming(s1, s1.heap[p].incoming), Tail(plans))
            ELSE ActLoop(st, Tail(plans))

\* CognitiveAgent::Act
Act(st, order) == ActLoop(st, FindAtomsByType(st, order, "Process"))

\* Learn, lines 355-360: the concepts strengthened.
RECURSIVE LearnLoop(_, _)
LearnLoop(st, concepts) ==
    IF concepts = <<>> THEN st
    ELSE LET c == st.heap[Head(concepts)]
             conf == IF c.confidence + 10 < One THEN c.confidence + 10 ELSE One
         IN IF c.attention > 500
            THEN LearnLoop(WithAtom(st, Head(concepts), SetTruthValue(c, c.truth, conf)),
                           Tail(concepts))
            ELSE LearnLoop(st, Tail(concepts))

\* Mutant of TrimMemories: the newest entries are erased instead of the oldest.
TrimMemoriesAtBack(mems) ==
    IF Len(mems) > MemoryLimit
    THEN SubSeq(mems, 1, Len(mems) - MemoryTrim)
    ELSE mems

\* Learn, lines 362-365: the clean-up of old memories.
TrimMemories(mems) ==
    IF Len(mems) > MemoryLimit
    THEN SubSeq(mems, MemoryTrim + 1, Len(mems))
    ELSE mems

\* CognitiveAgent::Learn (without its write of m_state).
Learn(st, mems, order) ==
    [store |-> LearnLoop(st, FindAtomsByType(st, order, "Concept")),
     memories |-> TrimMemories(mems)]

\* Mutant of SelfModifyLoop: the rule is created but the plan is not linked to it.
RECURSIVE SelfModifyLoopWithoutLink(_, _)
SelfModifyLoopWithoutLink(st, plans) ==
    IF plans = <<>> THEN st
    ELSE LET plan == st.heap[Head(plans)]
         IN SelfModifyLoopWithoutLink(
                CreateAtom(st, "Rule", StrRule \o plan.name, plan.truth, plan.confidence).store,
                Tail(plans))

\* SelfModify, lines 380-387.
RECURSIVE SelfModifyLoop(_, _)
SelfModifyLoop(st, plans) ==
    IF plans = <<>> THEN st
    ELSE LET p == Head(plans)
             plan == st.heap[p]
             r == CreateAtom(st, "Rule", StrRule \o plan.name, plan.truth, plan.confidence)
         IN SelfModifyLoop(WithAtom(r.store, p, AddOutgoingLink(r.store.heap[p], r.ret)),
                           Tail(plans))

\* CognitiveAgent::SelfModify (without its write of m_state).
SelfModify(st, order) ==
    LET Successful(a) == /\ a.type = "Process"
                         /\ Substr(a.name, 0, 5) = StrPlan
                         /\ a.truth > 800
    IN SelfModifyLoop(st, Query(st, order, [p \in DOMAIN st.heap |-> Successful(st.heap[p])]))

(***************************************************************************)
(* Calls on the AtomSpace and on atoms, made by any holder of the store.   *)
(***************************************************************************)
StrX == <<"X">>

\* The arguments the model draws for calls: names (one bound by the constructor,
\* one not), types, and (truth, confidence) pairs below, inside and above [0,1].
CallNames == {StrSelf, StrX}

CallTypes == {"Concept", "Goal"}

CallValues == {<<-500, 1500>>, <<1500, -500>>, <<300, 800>>}

\* The ids asked to be removed: the first atom and the ones created by calls
\* (bound or not at the time of the call).
CallIds == {1} \cup (4..MaxId)

NoAgents == [a \in {} |-> 0]

\* CognitiveIntegrationManager::CognitiveIntegrationManager: not initialized,
\* no cognitive system, statistics zeroed (also the manager field of a model
\* without a manager).
NoManager ==
    [initialized |-> FALSE, system |-> FALSE,
     stats |-> [processesMonitored |-> 0, eventsHandled |-> 0, cognitiveAgents |-> 0,
                activeQueries |-> 0],
     processMapping |-> NoAgents]

\* CognitiveSystem::CognitiveSystem: not initialized, nothing registered (also
\* the system fields of a model without a CognitiveSystem).
NoSystem ==
    /\ m_initialized = FALSE
    /\ m_agents = NoAgents
    /\ m_configuration = NoAgents
    /\ constructed = 0
    /\ manager = NoManager
    /\ sysCall = [op |-> "none"]

\* The agent fields when no agent is constructed.
NoAgentState ==
    /\ NoSystem
    /\ agents = {}
    /\ m_state = NoAgents
    /\ m_shouldStop = NoAgents
    /\ thread = NoAgents
    /\ pc = NoAgents
    /\ m_goals = NoAgents
    /\ m_memories = NoAgents
    /\ paused = NoAgents
    /\ caller = {}
    /\ terminated = FALSE

\* What a CreateAtom call that found the name unbound leaves for the next call.
Fresh(op) ==
    IF op.op = "CreateAtom" /\ op.fresh
    THEN [name |-> op.name, type |-> op.type, truth |-> op.truth,
          confidence |-> op.confidence, ret |-> op.ret, countBefore |-> op.countBefore]
    ELSE [name |-> <<>>]

\* AtomSpace::CreateAtom called with (type, name, truth, confidence).
CreateAtomCall ==
    \E type \in CallTypes, name \in CallNames, tc \in CallValues :
        /\ ~terminated
        /\ name \in DOMAIN m_atomsByName \/ s_nextId <= MaxId
        /\ LET r == CreateAtom(Store, type, name, tc[1], tc[2])
           IN /\ SetStore(r.store)
              /\ lastOp' = [op |-> "CreateAtom", type |-> type, name |-> name,
                            truth |-> tc[1], confidence |-> tc[2], ret |-> r.ret,
                            fresh |-> name \notin DOMAIN m_atomsByName,
                            countBefore |-> GetAtomCount(Store),
                            prev |-> Fresh(lastOp)]
        /\ UNCHANGED <<agentVars, budget>>

\* AtomSpace::RemoveAtom called with an id, present or not.
RemoveAtomCall ==
    \E id \in CallIds :
        /\ ~terminated
        /\ LET r == RemoveAtom(Store, id)
           IN /\ SetStore(r.store)
              /\ lastOp' = [op |-> "RemoveAtom", id |-> id, ret |-> r.ret]
        /\ UNCHANGED <<agentVars, budget>>

\* AtomSpace::Clear called.
ClearCall ==
    /\ ~terminated
    /\ m_atoms # <<>>
    /\ SetStore(Clear(Store))
    /\ lastOp' = [op |-> "Clear"]
    /\ UNCHANGED <<agentVars, budget>>

\* Atom::SetTruthValue called with (truth, confidence) on an atom the caller
\* found by name (AtomSpace::FindAtom).
SetTruthValueCall ==
    \E name \in CallNames \cap DOMAIN m_atomsByName, tc \in CallValues :
        /\ ~terminated
        /\ heap' = [heap EXCEPT ![m_atomsByName[name]] = SetTruthValue(@, tc[1], tc[2])]
        /\ lastOp' = [op |-> "SetTruthValue", atom |-> m_atomsByName[name],
                      truth |-> tc[1], confidence |-> tc[2]]
        /\ UNCHANGED <<s_nextId, m_atoms, m_atomsByName, agentVars, budget>>

(***************************************************************************)
(* SpecStore: one AtomSpace, as constructed, and the calls on it.          *)
(***************************************************************************)
InitStore ==
    /\ SetInit(NewAtomSpace)
    /\ NoAgentState
    /\ budget = [cycles |-> 0, calls |-> 0]
    /\ lastOp = [op |-> "none"]

NextStore ==
    \/ CreateAtomCall
    \/ RemoveAtomCall
    \/ ClearCall
    \/ SetTruthValueCall

SpecStore == InitStore /\ [][NextStore]_vars

(***************************************************************************)
(* SpecAttention: one AtomSpace whose atoms are linked and given attention *)
(* by their holders, and the attention passes over it.                     *)
(***************************************************************************)
\* The attention values and link targets the model draws for calls.
AttentionValues == {-1000, 0, 100, 1000}

LinkTargets == {Null} \cup DOMAIN heap

\* Atom::SetAttention called on an atom of the store.
SetAttentionCall ==
    \E p \in DOMAIN heap, v \in AttentionValues :
        /\ budget.calls > 0
        /\ budget' = [budget EXCEPT !.calls = @ - 1]
        /\ heap' = [heap EXCEPT ![p] = SetAttention(@, v)]
        /\ lastOp' = [op |-> "SetAttention", atom |-> p, attention |-> v]
        /\ UNCHANGED <<s_nextId, m_atoms, m_atomsByName, agentVars>>

\* Atom::AddOutgoingLink called on an atom of the store.
AddOutgoingLinkCall ==
    \E p \in DOMAIN heap, t \in LinkTargets :
        /\ budget.calls > 0
        /\ budget' = [budget EXCEPT !.calls = @ - 1]
        /\ heap' = [heap EXCEPT ![p] = AddOutgoingLink(@, t)]
        /\ lastOp' = [op |-> "AddOutgoingLink", atom |-> p, target |-> t,
                      pre |-> heap[p].outgoing]
        /\ UNCHANGED <<s_nextId, m_atoms, m_atomsByName, agentVars>>

\* Atom::AddIncomingLink called on an atom of the store.
AddIncomingLinkCall ==
    \E p \in DOMAIN heap, t \in LinkTargets :
        /\ budget.calls > 0
        /\ budget' = [budget EXCEPT !.calls = @ - 1]
        /\ heap' = [heap EXCEPT ![p] = AddIncomingLink(@, t)]
        /\ lastOp' = [op |-> "AddIncomingLink", atom |-> p, target |-> t,
                      pre |-> heap[p].incoming]
        /\ UNCHANGED <<s_nextId, m_atoms, m_atomsByName, agentVars>>

\* AtomSpace::UpdateAttentionValues called; pre is the heap the pass found.
UpdateAttentionValuesCall ==
    \E order \in TableOrders(Store) :
        /\ budget.cycles > 0
        /\ budget' = [budget EXCEPT !.cycles = @ - 1]
        /\ SetStore(UpdateAttentionValues(Store, order))
        /\ lastOp' = [op |-> "UpdateAttentionValues", pre |-> heap]
        /\ UNCHANGED agentVars

InitAttention ==
    /\ SetInit(NewAtomSpace)
    /\ NoAgentState
    /\ budget = [cycles |-> MaxCycles, calls |-> MaxCalls]
    /\ lastOp = [op |-> "none"]

NextAttention ==
    \/ SetAttentionCall
    \/ AddOutgoingLinkCall
    \/ AddIncomingLinkCall
    \/ UpdateAttentionValuesCall

SpecAttention == InitAttention /\ [][NextAttention]_vars

(***************************************************************************)
(* CognitiveAgent: construction, lifecycle calls and the processing thread.*)
(***************************************************************************)
StrA == <<"A">>

StrG == <<"G">>

StrM == <<"m">>

AgentNames == {StrA}

\* CognitiveAgent::CognitiveAgent: the agent's self-concept, with attention 1.0.
NewAgent(st, name) ==
    LET r == CreateAtom(st, "Agent", StrAgent \o name, One, One)
    IN WithAtom(r.store, r.ret, SetAttention(r.store.heap[r.ret], AgentAttention))

\* CognitiveAgent::AddGoal on the goal list goals.
AddGoal(st, goals, goal) ==
    IF st.heap[goal].type = "Goal" THEN Append(goals, goal) ELSE goals

\* CognitiveAgent::ReceiveMessage: the store and the memory list afterwards.
ReceiveMessage(st, mems, fromAgent, message) ==
    LET r == CreateAtom(st, "Memory", StrMessage \o fromAgent \o StrColon \o message,
                        One, 900)
    IN [store |-> r.store, memories |-> Append(mems, r.ret)]

\* The pcs at which the thread is about to run a cycle stage.
StagePcs == {"perceive", "reason", "plan", "act", "learn", "selfmodify"}

StageOps == {"Perceive", "Reason", "Plan", "Act", "Learn", "SelfModify"}

Alive(a) == a \in agents /\ thread[a] = "running" /\ ~terminated

\* Mutant of LoopContinues: the loop does not test the stop flag.
LoopIgnoresStop(stop) == TRUE

\* ProcessingLoop, line 245: while (!m_shouldStop)
LoopContinues(stop) == ~stop

\* ProcessingLoop, line 245: the loop test; the thread function returns when it fails.
LoopCheck(a) ==
    /\ Alive(a)
    /\ pc[a] = "check"
    /\ IF LoopContinues(m_shouldStop[a])
       THEN /\ budget.cycles > 0
            /\ budget' = [budget EXCEPT !.cycles = @ - 1]
            /\ pc' = [pc EXCEPT ![a] = "perceive"]
            /\ UNCHANGED thread
       ELSE /\ pc' = [pc EXCEPT ![a] = "done"]
            /\ thread' = [thread EXCEPT ![a] = "finished"]
            /\ UNCHANGED budget
    /\ lastOp' = [op |-> "LoopCheck", agent |-> a]
    /\ UNCHANGED <<storeVars, sysVars, agents, m_state, m_shouldStop, m_goals, m_memories,
                   caller, terminated, paused>>

\* ProcessingLoop, line 248: Perceive().
PerceiveStep(a) ==
    /\ Alive(a)
    /\ pc[a] = "perceive"
    /\ \E order \in TableOrders(Store) :
          \E r \in {Perceive(Store, m_memories[a], order)} :
             /\ SetStore(r.store)
             /\ m_memories' = [m_memories EXCEPT ![a] = r.memories]
    /\ m_state' = [m_state EXCEPT ![a] = "Active"]
    /\ pc' = [pc EXCEPT ![a] = "reason"]
    /\ lastOp' = [op |-> "Perceive", agent |-> a, pre |-> Store, state |-> m_state[a],
                  found |-> m_memories[a]]
    /\ UNCHANGED <<sysVars, agents, m_shouldStop, thread, m_goals, caller, terminated, budget, paused>>

\* ProcessingLoop, line 249: Reason().
ReasonStep(a) ==
    /\ Alive(a)
    /\ pc[a] = "reason"
    /\ \E order \in TableOrders(Store) :
          \E st \in {Reason(Store, m_memories[a], order)} : SetStore(st)
    /\ pc' = [pc EXCEPT ![a] = "plan"]
    /\ lastOp' = [op |-> "Reason", agent |-> a, pre |-> Store, found |-> m_memories[a]]
    /\ UNCHANGED <<sysVars, agents, m_state, m_shouldStop, thread, m_goals, m_memories,
                   caller, terminated, budget, paused>>

\* ProcessingLoop, line 250: Plan().
PlanStep(a) ==
    /\ Alive(a)
    /\ pc[a] = "plan"
    /\ \E st \in {Plan(Store, m_goals[a])} : SetStore(st)
    /\ pc' = [pc EXCEPT ![a] = "act"]
    /\ lastOp' = [op |-> "Plan", agent |-> a, pre |-> Store]
    /\ UNCHANGED <<sysVars, agents, m_state, m_shouldStop, thread, m_goals, m_memories,
                   caller, terminated, budget, paused>>

\* ProcessingLoop, line 251: Act().
ActStep(a) ==
    /\ Alive(a)
    /\ pc[a] = "act"
    /\ \E order \in TableOrders(Store) :
          \E st \in {Act(Store, order)} : SetStore(st)
    /\ pc' = [pc EXCEPT ![a] = "learn"]
    /\ lastOp' = [op |-> "Act", agent |-> a, pre |-> Store]
    /\ UNCHANGED <<sysVars, agents, m_state, m_shouldStop, thread, m_goals, m_memories,
                   caller, terminated, budget, paused>>

\* ProcessingLoop, line 252: Learn().
LearnStep(a) ==
    /\ Alive(a)
    /\ pc[a] = "learn"
    /\ \E order \in TableOrders(Store) :
          \E r \in {Learn(Store, m_memories[a], order)} :
             /\ SetStore(r.store)
             /\ m_memories' = [m_memories EXCEPT ![a] = r.memories]
    /\ m_state' = [m_state EXCEPT ![a] = "Learning"]
    /\ pc' = [pc EXCEPT ![a] = "draw"]
    /\ lastOp' = [op |-> "Learn", agent |-> a, found |-> m_memories[a], pre |-> Store]
    /\ UNCHANGED <<sysVars, agents, m_shouldStop, thread, m_goals, caller, terminated, budget, paused>>

\* ProcessingLoop, lines 255-261: the 1% draw that selects SelfModify().
DrawStep(a) ==
    /\ Alive(a)
    /\ pc[a] = "draw"
    /\ \E selected \in BOOLEAN :
          /\ pc' = [pc EXCEPT ![a] = IF selected THEN "selfmodify" ELSE "wait"]
          /\ lastOp' = [op |-> "Draw", agent |-> a, selected |-> selected]
    /\ UNCHANGED <<storeVars, sysVars, agents, m_state, m_shouldStop, thread, m_goals, m_memories,
                   caller, terminated, budget, paused>>

\* ProcessingLoop, line 260: SelfModify().
SelfModifyStep(a) ==
    /\ Alive(a)
    /\ pc[a] = "selfmodify"
    /\ \E order \in TableOrders(Store) :
          \E st \in {SelfModify(Store, order)} : SetStore(st)
    /\ m_state' = [m_state EXCEPT ![a] = "SelfModifying"]
    /\ pc' = [pc EXCEPT ![a] = "wait"]
    /\ lastOp' = [op |-> "SelfModify", agent |-> a, pre |-> Store]
    /\ UNCHANGED <<sysVars, agents, m_shouldStop, thread, m_goals, m_memories,
                   caller, terminated, budget, paused>>

\* ProcessingLoop, lines 264-266: wait_for returns, by its predicate or after
\* 100 ms; the mutex is free whenever no call is inside its critical section.
WaitStep(a) ==
    /\ Alive(a)
    /\ pc[a] = "wait"
    /\ pc' = [pc EXCEPT ![a] = "check"]
    /\ paused' = [paused EXCEPT ![a] = IF @ = "requested" THEN "waited" ELSE @]
    /\ lastOp' = [op |-> "Wait", agent |-> a]
    /\ UNCHANGED <<storeVars, sysVars, agents, m_state, m_shouldStop, thread, m_goals, m_memories,
                   caller, terminated, budget>>

\* Mutant of StageThrows: nothing catches the exception, which ends the process.
StageThrowsEscapes(a) ==
    /\ Alive(a)
    /\ pc[a] \in StagePcs
    /\ terminated' = TRUE
    /\ lastOp' = [op |-> "Throw", agent |-> a, stage |-> pc[a]]
    /\ UNCHANGED <<storeVars, sysVars, agents, m_state, m_shouldStop, thread, pc, m_goals,
                   m_memories, caller, budget, paused>>

\* Mutant of StageThrows: the loop goes on with the stage that failed.
StageThrowsRetries(a) ==
    /\ Alive(a)
    /\ pc[a] \in StagePcs
    /\ m_state' = [m_state EXCEPT ![a] = "Error"]
    /\ lastOp' = [op |-> "Throw", agent |-> a, stage |-> pc[a]]
    /\ UNCHANGED <<storeVars, sysVars, agents, m_shouldStop, thread, pc, m_goals, m_memories,
                   caller, terminated, budget, paused>>

\* ProcessingLoop, lines 268-271: a stage throws (std::bad_alloc, or an
\* overriding stage); the handler records Error and the loop goes on.
StageThrows(a) ==
    /\ Alive(a)
    /\ pc[a] \in StagePcs
    /\ m_state' = [m_state EXCEPT ![a] = "Error"]
    /\ pc' = [pc EXCEPT ![a] = "check"]
    /\ lastOp' = [op |-> "Throw", agent |-> a, stage |-> pc[a]]
    /\ UNCHANGED <<storeVars, sysVars, agents, m_shouldStop, thread, m_goals, m_memories,
                   caller, terminated, budget, paused>>

\* One step of the agent's execution context.
ThreadStep(a) ==
    \/ LoopCheck(a)
    \/ PerceiveStep(a)
    \/ ReasonStep(a)
    \/ PlanStep(a)
    \/ ActStep(a)
    \/ LearnStep(a)
    \/ DrawStep(a)
    \/ SelfModifyStep(a)
    \/ WaitStep(a)
    \/ StageThrows(a)

\* CognitiveAgent::Start, called by the controlling thread.  Assigning a new
\* std::thread to a still joinable m_processingThread calls std::terminate.
Start(a) ==
    /\ a \in agents /\ ~terminated /\ caller = {}
    /\ IF m_state[a] # "Inactive"
       THEN UNCHANGED <<m_state, m_shouldStop, thread, pc, terminated, paused>>
       ELSE /\ m_shouldStop' = [m_shouldStop EXCEPT ![a] = FALSE]
            /\ m_state' = [m_state EXCEPT ![a] = "Active"]
            /\ paused' = [paused EXCEPT ![a] = "no"]
            /\ IF thread[a] = "none"
               THEN /\ thread' = [thread EXCEPT ![a] = "running"]
                    /\ pc' = [pc EXCEPT ![a] = "check"]
                    /\ UNCHANGED terminated
               ELSE /\ terminated' = TRUE
                    /\ UNCHANGED <<thread, pc>>
    /\ lastOp' = [op |-> "Start", agent |-> a, pre |-> m_state[a],
                  joinable |-> thread[a] # "none"]
    /\ UNCHANGED <<storeVars, sysVars, agents, m_goals, m_memories, caller, budget>>

\* CognitiveAgent::Stop, lines 216-222: the flag and the state are set under
\* the mutex and the condition is notified; the caller then joins.
StopBegin(a) ==
    /\ a \in agents /\ ~terminated /\ caller = {}
    /\ m_shouldStop' = [m_shouldStop EXCEPT ![a] = TRUE]
    /\ m_state' = [m_state EXCEPT ![a] = "Inactive"]
    /\ caller' = {a}
    /\ paused' = [paused EXCEPT ![a] = "no"]
    /\ lastOp' = [op |-> "StopBegin", agent |-> a, pre |-> m_state[a]]
    /\ UNCHANGED <<storeVars, sysVars, agents, thread, pc, m_goals, m_memories, terminated, budget>>

\* CognitiveAgent::Stop, lines 224-226: join returns once the thread function
\* has returned (at once when there is no thread), and Stop returns.
StopJoin(a) ==
    /\ a \in caller /\ ~terminated
    /\ thread[a] # "running"
    /\ thread' = [thread EXCEPT ![a] = "none"]
    /\ caller' = {}
    /\ lastOp' = [op |-> "Stop", agent |-> a]
    /\ UNCHANGED <<storeVars, sysVars, agents, m_state, m_shouldStop, pc, m_goals, m_memories,
                   terminated, budget, paused>>

\* CognitiveAgent::Pause
Pause(a) ==
    /\ a \in agents /\ ~terminated
    /\ IF m_state[a] = "Active"
       THEN /\ m_state' = [m_state EXCEPT ![a] = "Inactive"]
            /\ paused' = [paused EXCEPT ![a] = IF Alive(a) THEN "requested" ELSE "no"]
       ELSE UNCHANGED <<m_state, paused>>
    /\ lastOp' = [op |-> "Pause", agent |-> a, pre |-> m_state[a]]
    /\ UNCHANGED <<storeVars, sysVars, agents, m_shouldStop, thread, pc, m_goals, m_memories,
                   caller, terminated, budget>>

\* Mutant of ResumeState: the stop flag is not tested.
ResumeStateIgnoringStop(state, stop) ==
    IF state = "Inactive" THEN "Active" ELSE state

\* CognitiveAgent::Resume, lines 238-241: the state Resume leaves.
ResumeState(state, stop) ==
    IF state = "Inactive" /\ ~stop THEN "Active" ELSE state

\* CognitiveAgent::Resume
Resume(a) ==
    /\ a \in agents /\ ~terminated
    /\ m_state' = [m_state EXCEPT ![a] = ResumeState(m_state[a], m_shouldStop[a])]
    /\ paused' = [paused EXCEPT ![a] = "no"]
    /\ lastOp' = [op |-> "Resume", agent |-> a, pre |-> m_state[a],
                  stop |-> m_shouldStop[a], joining |-> a \in caller,
                  started |-> thread[a] # "none"]
    /\ UNCHANGED <<storeVars, sysVars, agents, m_shouldStop, thread, pc, m_goals, m_memories,
                   caller, terminated, budget>>

\* The positions of the thread in which it reads or modifies m_memories:
\* Perceive (push_back, line 291), Reason (the range-for of line 300) and Learn
\* (size and erase, lines 363-364).
MemoryStagePcs == {"perceive", "reason", "learn"}

\* ReceiveMessage runs on its caller's thread and takes no lock that the
\* agent's thread takes: its push_back (line 414) races with the thread while
\* the thread is in one of these stages.
PushBackRaces(a) == Alive(a) /\ pc[a] \in MemoryStagePcs

\* The lists that ReceiveMessage's push_back can leave.  Without a race the
\* entry is appended; in a race the behaviour is undefined, and the outcomes
\* taken are the append, its loss (the two writers used the same slot, or the
\* thread's erase or reallocation overwrote it); the third, the crash of the
\* process, is the second disjunct of the calls below.
PushBackOutcomes(a, mems, atom) ==
    IF PushBackRaces(a) THEN {Append(mems, atom), mems} ELSE {Append(mems, atom)}

\* CognitiveAgent::ReceiveMessage("System", message), as BroadcastMessage calls it.
ReceiveMessageCall(a) ==
    /\ a \in agents /\ ~terminated
    /\ budget.calls > 0
    /\ budget' = [budget EXCEPT !.calls = @ - 1]
    /\ \/ /\ \E r \in {ReceiveMessage(Store, m_memories[a], StrSystem, StrM)} :
                /\ SetStore(r.store)
                /\ \E mems \in PushBackOutcomes(a, m_memories[a], r.memories[Len(r.memories)]) :
                      m_memories' = [m_memories EXCEPT ![a] = mems]
          /\ lastOp' = [op |-> "ReceiveMessage", agent |-> a]
          /\ UNCHANGED terminated
       \/ /\ PushBackRaces(a)
          /\ terminated' = TRUE
          /\ lastOp' = [op |-> "Crash", agent |-> a]
          /\ UNCHANGED <<storeVars, m_memories>>
    /\ UNCHANGED <<sysVars, agents, m_state, m_shouldStop, thread, pc, m_goals, caller,
                   paused>>

(***************************************************************************)
(* SpecAgent: one agent on a fresh store, holding one goal (the set-up of  *)
(* TestCognitiveAgent), its lifecycle calls and its thread.                *)
(***************************************************************************)
\* The store after AtomSpace(), CognitiveAgent("A", store) and the creation of goal "G".
AgentStore ==
    CreateAtom(NewAgent(NewAtomSpace, StrA), "Goal", StrG, 500, 800)

\* The agent fields after construction, with the given goal and memory lists.
ConstructedAgent(goals, mems) ==
    /\ NoSystem
    /\ agents = AgentNames
    /\ m_state = [a \in AgentNames |-> "Inactive"]
    /\ m_shouldStop = [a \in AgentNames |-> FALSE]
    /\ thread = [a \in AgentNames |-> "none"]
    /\ pc = [a \in AgentNames |-> "none"]
    /\ m_goals = [a \in AgentNames |-> goals]
    /\ m_memories = [a \in AgentNames |-> mems]
    /\ paused = [a \in AgentNames |-> "no"]
    /\ caller = {}
    /\ terminated = FALSE

InitAgent ==
    /\ SetInit(AgentStore.store)
    /\ ConstructedAgent(AddGoal(AgentStore.store, <<>>, AgentStore.ret), <<>>)
    /\ budget = [cycles |-> MaxCycles, calls |-> 0]
    /\ lastOp = [op |-> "none"]

NextAgent ==
    \E a \in AgentNames :
        \/ Start(a)
        \/ StopBegin(a)
        \/ StopJoin(a)
        \/ Pause(a)
        \/ Resume(a)
        \/ ThreadStep(a)

SpecAgent == InitAgent /\ [][NextAgent]_vars

\* The scheduler runs a runnable thread, and a join whose thread has ended returns.
FairAgent == \A a \in AgentNames : WF_vars(ThreadStep(a)) /\ WF_vars(StopJoin(a))

FairSpecAgent == SpecAgent /\ FairAgent

(***************************************************************************)
(* SpecMemory: one agent whose memory list is about to reach its limit,    *)
(* its thread and the messages it receives.                                *)
(***************************************************************************)
\* The store after AtomSpace() and CognitiveAgent("A", store), one Perceive
\* stage and one ReceiveMessage("System", "m"): both memory atoms exist.
MemoryStore ==
    LET st == NewAgent(NewAtomSpace, StrA)
        p == Perceive(st, <<>>, CHOOSE order \in TableOrders(st) : TRUE)
    IN ReceiveMessage(p.store, p.memories, StrSystem, StrM)

\* The memory list after n appends, a received message after each perception.
MemoriesOfLength(n) ==
    [i \in 1..n |-> MemoryStore.memories[2 - (i % 2)]]

\* The list lengths the model starts from: empty, one below the limit, at the limit.
InitLengths == {0, MemoryLimit - 1, MemoryLimit}

InitMemory ==
    /\ SetInit(MemoryStore.store)
    /\ \E n \in InitLengths : ConstructedAgent(<<>>, MemoriesOfLength(n))
    /\ budget = [cycles |-> MaxCycles, calls |-> MaxCalls]
    /\ lastOp = [op |-> "none"]

NextMemory ==
    \E a \in AgentNames :
        \/ Start(a)
        \/ ThreadStep(a)
        \/ ReceiveMessageCall(a)

SpecMemory == InitMemory /\ [][NextMemory]_vars

(***************************************************************************)
(* CognitiveSystem: the registry of agents over the global AtomSpace.      *)
(***************************************************************************)
StrB == <<"B">>

StrAgentGoal == <<"A", "g", "e", "n", "t", "G", "o", "a", "l", ":">>

StrCognitiveSystem == <<"C", "o", "g", "n", "i", "t", "i", "v", "e", "S", "y", "s", "t", "e", "m">>

StrSystemStability == <<"S", "y", "s", "t", "e", "m", "S", "t", "a", "b", "i", "l", "i", "t", "y">>

StrOptimizePerformance == <<"O", "p", "t", "i", "m", "i", "z", "e", "P", "e", "r", "f", "o", "r", "m", "a", "n", "c", "e">>

\* The names CreateAgent and RemoveAgent are called with.
SystemNames == {StrA, StrB}

\* f with the value v at key k, added or replaced (operator[] of a map).
Extend(f, k, v) == [x \in DOMAIN f \cup {k} |-> IF x = k THEN v ELSE f[x]]

\* f without the keys in S.
Without(f, S) == [x \in DOMAIN f \ S |-> f[x]]

\* CognitiveSystem::SetConfiguration on the map cfg.
SetConfiguration(cfg, key, value) == Extend(cfg, key, value)

\* Initialize, lines 440-442: the system-level atoms.
InitializeAtoms(st) ==
    LET s1 == CreateAtom(st, "Concept", StrCognitiveSystem, One, One).store
        s2 == CreateAtom(s1, "Goal", StrSystemStability, One, One).store
    IN CreateAtom(s2, "Goal", StrOptimizePerformance, 800, 900).store

\* Initialize, lines 445-447: the default configuration.
InitializeConfiguration(cfg) ==
    SetConfiguration(
        SetConfiguration(
            SetConfiguration(cfg, "max_agents", "10"),
            "attention_update_interval", "1000"),
        "self_modification_probability", "0.01")

\* Mutant of RegistryFind: the name is never found.
RegistryFindNothing(registry, name) == FALSE

\* m_agents.find(name) != m_agents.end()
RegistryFind(registry, name) == name \in DOMAIN registry

\* CognitiveSystem::GetAgent: the registered object, or Null.
GetAgent(registry, name) ==
    IF RegistryFind(registry, name) THEN registry[name] ELSE Null

\* CognitiveSystem::GetAgentNames (as a set: the order is the map's).
GetAgentNames(registry) == DOMAIN registry

\* Mutant of RegistryErase: the entry stays.
RegistryEraseNothing(registry, name) == registry

\* RemoveAgent, line 495: m_agents.erase(it)
RegistryErase(registry, name) == Without(registry, {name})

\* GetStatistics, lines 564-571: the states counted as active.
ActiveStates == {"Active", "Learning", "Planning", "Executing", "SelfModifying"}

\* GetStatistics: totalAgents and activeAgents.
GetStatistics(registry, state) ==
    [totalAgents |-> Cardinality(DOMAIN registry),
     activeAgents |-> Cardinality({a \in DOMAIN registry : state[a] \in ActiveStates})]

\* UpdateSystem, line 533: stats.activeAgents < stats.totalAgents / 2 (size_t division)
ActivatesMore(stats) == stats.activeAgents < stats.totalAgents \div 2

\* A system call is accepted: the calling thread is not inside another call.
SystemIdle == sysCall.op = "none" /\ caller = {} /\ ~terminated

\* One more call on the system is explored.
SystemCall ==
    /\ SystemIdle
    /\ budget.calls > 0
    /\ budget' = [budget EXCEPT !.calls = @ - 1]

\* The per-agent fields as they are once the objects in S are destroyed.
DestroyAgents(S) ==
    /\ agents' = agents \ S
    /\ m_state' = Without(m_state, S)
    /\ m_shouldStop' = Without(m_shouldStop, S)
    /\ thread' = Without(thread, S)
    /\ pc' = Without(pc, S)
    /\ m_goals' = Without(m_goals, S)
    /\ m_memories' = Without(m_memories, S)
    /\ paused' = Without(paused, S)

\* CognitiveSystem::Initialize
InitializeCall ==
    /\ SystemCall
    /\ m_initialized' = TRUE
    /\ IF m_initialized
       THEN UNCHANGED <<storeVars, m_configuration>>
       ELSE /\ SetStore(InitializeAtoms(Store))
            /\ m_configuration' = InitializeConfiguration(m_configuration)
    /\ lastOp' = [op |-> "Initialize", pre |-> m_initialized]
    /\ UNCHANGED <<agents, m_state, m_shouldStop, thread, pc, m_goals, m_memories, caller,
                   terminated, paused, m_agents, constructed, manager, sysCall>>

\* CognitiveSystem::CreateAgent(name); the object returned is named by its serial.
CreateAgentCall ==
    \E name \in SystemNames :
        /\ SystemCall
        /\ IF RegistryFind(m_agents, name)
           THEN /\ lastOp' = [op |-> "CreateAgent", name |-> name, found |-> TRUE,
                             ret |-> m_agents[name]]
                /\ UNCHANGED <<storeVars, agents, m_state, m_shouldStop, thread, pc,
                               m_goals, m_memories, paused, m_agents, constructed, manager>>
           ELSE /\ constructed < MaxConstructed
                /\ \E g \in {CreateAtom(NewAgent(Store, name), "Goal",
                                        StrAgentGoal \o name, 500, 800)} :
                      /\ SetStore(g.store)
                      /\ m_goals' = Extend(m_goals, name, AddGoal(g.store, <<>>, g.ret))
                      /\ lastOp' = [op |-> "CreateAgent", name |-> name, found |-> FALSE,
                                    ret |-> constructed + 1, goal |-> g.ret,
                                    goalFresh |-> g.ret \notin DOMAIN heap]
                /\ agents' = agents \cup {name}
                /\ m_state' = Extend(m_state, name, "Inactive")
                /\ m_shouldStop' = Extend(m_shouldStop, name, FALSE)
                /\ thread' = Extend(thread, name, "none")
                /\ pc' = Extend(pc, name, "none")
                /\ m_memories' = Extend(m_memories, name, <<>>)
                /\ paused' = Extend(paused, name, "no")
                /\ m_agents' = Extend(m_agents, name, constructed + 1)
                /\ constructed' = constructed + 1
                /\ UNCHANGED manager
        /\ UNCHANGED <<caller, terminated, m_initialized, m_configuration, sysCall>>

\* What RemoveAgent and Shutdown find before they act.
SystemSnapshot ==
    [registry |-> m_agents, objects |-> agents, state |-> m_state,
     stop |-> m_shouldStop, thread |-> thread, goals |-> m_goals,
     initialized |-> m_initialized]

\* CognitiveAgent::Stop as RemoveAgent and Shutdown call it, lines 216-222:
\* the flag and the state are set and the condition notified; join follows.
SystemStopBegin(a) ==
    /\ m_shouldStop' = [m_shouldStop EXCEPT ![a] = TRUE]
    /\ m_state' = [m_state EXCEPT ![a] = "Inactive"]
    /\ paused' = [paused EXCEPT ![a] = "no"]
    /\ caller' = {a}

\* CognitiveSystem::RemoveAgent(name), up to the join inside Stop(); with an
\* unregistered name, the whole call.
RemoveAgentCall ==
    \E name \in SystemNames :
        /\ SystemCall
        /\ IF ~RegistryFind(m_agents, name)
           THEN /\ lastOp' = [op |-> "RemoveAgent", name |-> name, ret |-> FALSE,
                             pre |-> SystemSnapshot]
                /\ UNCHANGED <<m_state, m_shouldStop, paused, caller, sysCall>>
           ELSE /\ SystemStopBegin(name)
                /\ sysCall' = [op |-> "RemoveAgent", name |-> name, pre |-> SystemSnapshot]
                /\ lastOp' = [op |-> "StopBegin", agent |-> name, pre |-> m_state[name]]
        /\ UNCHANGED <<storeVars, agents, thread, pc, m_goals, m_memories, terminated,
                       m_initialized, m_agents, m_configuration, constructed, manager>>

\* RemoveAgent, lines 494-496: join has returned, the entry is erased and the
\* call returns true.  The object dies with its last reference.
RemoveAgentReturn ==
    \E name \in caller :
        /\ sysCall.op = "RemoveAgent" /\ ~terminated
        /\ thread[name] # "running"
        /\ m_agents' = RegistryErase(m_agents, name)
        /\ IF name \in DOMAIN m_agents'
           THEN /\ thread' = [thread EXCEPT ![name] = "none"]
                /\ UNCHANGED <<agents, m_state, m_shouldStop, pc, m_goals, m_memories, paused>>
           ELSE DestroyAgents({name})
        /\ caller' = {}
        /\ sysCall' = [op |-> "none"]
        /\ lastOp' = [op |-> "RemoveAgent", name |-> name, ret |-> TRUE,
                      pre |-> sysCall.pre, exited |-> thread[name] # "running"]
        /\ UNCHANGED <<storeVars, terminated, budget, m_initialized, m_configuration,
                       constructed, manager>>

\* CognitiveSystem::Shutdown, lines 451-456: the test of m_initialized; on an
\* uninitialized system, the whole call.
ShutdownCall ==
    /\ SystemCall
    /\ m_initialized' = FALSE
    /\ IF ~m_initialized
       THEN /\ lastOp' = [op |-> "Shutdown", pre |-> SystemSnapshot,
                         again |-> lastOp.op = "Shutdown"]
            /\ UNCHANGED sysCall
       ELSE /\ sysCall' = [op |-> "Shutdown", pending |-> DOMAIN m_agents,
                           pre |-> SystemSnapshot]
            /\ lastOp' = [op |-> "ShutdownBegin"]
    /\ UNCHANGED <<storeVars, agents, m_state, m_shouldStop, thread, pc, m_goals, m_memories,
                   caller, terminated, paused, m_agents, m_configuration, constructed, manager>>

\* Shutdown, lines 457-459: agent->Stop() for the next agent of the registry.
ShutdownStop ==
    \E a \in agents :
        /\ sysCall.op = "Shutdown" /\ caller = {} /\ ~terminated
        /\ a \in sysCall.pending
        /\ SystemStopBegin(a)
        /\ sysCall' = [sysCall EXCEPT !.pending = @ \ {a}]
        /\ lastOp' = [op |-> "StopBegin", agent |-> a, pre |-> m_state[a]]
        /\ UNCHANGED <<storeVars, agents, thread, pc, m_goals, m_memories, terminated,
                       budget, m_initialized, m_agents, m_configuration, constructed, manager>>

\* Shutdown: the join inside that Stop() returns.
ShutdownJoin ==
    \E a \in caller :
        /\ sysCall.op = "Shutdown" /\ ~terminated
        /\ thread[a] # "running"
        /\ thread' = [thread EXCEPT ![a] = "none"]
        /\ caller' = {}
        /\ lastOp' = [op |-> "Stop", agent |-> a]
        /\ UNCHANGED <<storeVars, sysVars, agents, m_state, m_shouldStop, pc, m_goals,
                       m_memories, terminated, budget, paused>>

\* Shutdown, line 460: m_agents.clear(), and the call returns.
ShutdownReturn ==
    /\ sysCall.op = "Shutdown" /\ sysCall.pending = {} /\ caller = {} /\ ~terminated
    /\ m_agents' = NoAgents
    /\ DestroyAgents(DOMAIN m_agents)
    /\ sysCall' = [op |-> "none"]
    /\ lastOp' = [op |-> "Shutdown", pre |-> sysCall.pre, again |-> FALSE]
    /\ UNCHANGED <<storeVars, caller, terminated, budget, m_initialized, m_configuration,
                   constructed, manager>>

\* CognitiveSystem::UpdateSystem
UpdateSystemCall ==
    \E order \in TableOrders(Store) :
        /\ SystemCall
        /\ IF ~m_initialized
           THEN /\ lastOp' = [op |-> "UpdateSystem", initialized |-> FALSE]
                /\ UNCHANGED <<storeVars, m_state, paused>>
           ELSE \E st \in {UpdateAttentionValues(Store, order)} :
                  LET systemGoals == FindAtomsByType(st, order, "Goal")
                      holdsGoal == \E i \in 1..Len(systemGoals) :
                                      st.heap[systemGoals[i]].name = StrOptimizePerformance
                      stats == GetStatistics(m_agents, m_state)
                      inactive == {a \in DOMAIN m_agents : m_state[a] = "Inactive"}
                      op == [op |-> "UpdateSystem", initialized |-> TRUE,
                             holdsGoal |-> holdsGoal, stats |-> stats,
                             inactive |-> inactive, pre |-> m_state]
                  IN /\ SetStore(st)
                     /\ IF holdsGoal /\ ActivatesMore(stats) /\ inactive # {}
                        THEN \E a \in inactive :
                               /\ m_state' = [m_state EXCEPT
                                                ![a] = ResumeState(@, m_shouldStop[a])]
                               /\ paused' = [paused EXCEPT ![a] = "no"]
                               /\ lastOp' = [op EXCEPT !.op = "UpdateSystem"] @@
                                            [resumed |-> {a}]
                        ELSE /\ lastOp' = op @@ [resumed |-> {}]
                             /\ UNCHANGED <<m_state, paused>>
        /\ UNCHANGED <<sysVars, agents, m_shouldStop, thread, pc, m_goals, m_memories,
                       caller, terminated>>

\* The names a holder of the global store binds before an agent is created.
ForeignNames == {StrAgentGoal \o StrA}

\* AtomSpace::CreateAtom called on the global store (GetGlobalAtomSpace()).
ForeignCreateAtomCall ==
    \E type \in {"Concept"}, name \in ForeignNames :
        /\ SystemCall
        /\ SetStore(CreateAtom(Store, type, name, 300, 800).store)
        /\ lastOp' = [op |-> "CreateAtom", type |-> type, name |-> name, fresh |-> FALSE]
        /\ UNCHANGED agentVars

(***************************************************************************)
(* SpecSystem: one CognitiveSystem, the calls on it, the Start() calls on  *)
(* its agents and their threads.                                           *)
(***************************************************************************)
\* A system as constructed, or as constructed and initialized; no agent yet.
InitSystem ==
    /\ agents = {}
    /\ m_state = NoAgents /\ m_shouldStop = NoAgents /\ thread = NoAgents
    /\ pc = NoAgents /\ m_goals = NoAgents /\ m_memories = NoAgents
    /\ paused = NoAgents
    /\ caller = {} /\ terminated = FALSE
    /\ m_agents = NoAgents /\ constructed = 0 /\ sysCall = [op |-> "none"]
    /\ manager = NoManager
    /\ \/ /\ m_initialized = FALSE
          /\ SetInit(NewAtomSpace)
          /\ m_configuration = NoAgents
       \/ /\ m_initialized = TRUE
          /\ SetInit(InitializeAtoms(NewAtomSpace))
          /\ m_configuration = InitializeConfiguration(NoAgents)
    /\ budget = [cycles |-> 1, calls |-> MaxCalls + 1]
    /\ lastOp = [op |-> "none"]

NextSystem ==
    \/ InitializeCall
    \/ CreateAgentCall
    \/ RemoveAgentCall
    \/ RemoveAgentReturn
    \/ ShutdownCall
    \/ ShutdownStop
    \/ ShutdownJoin
    \/ ShutdownReturn
    \/ UpdateSystemCall
    \/ ForeignCreateAtomCall
    \/ \E a \in SystemNames :
          \/ SystemIdle /\ Start(a)
          \/ ThreadStep(a)

SpecSystem == InitSystem /\ [][NextSystem]_vars

(***************************************************************************)
(* Properties of the AtomSpace (checked under SpecStore).                  *)
(***************************************************************************)
InUnit(v) == 0 <= v /\ v <= One

\* C1: CreateAtom(t1,n,v1,c1) on an unbound name n followed at once by
\* CreateAtom(t2,n,v2,c2) returns the same node both times; the node still has
\* type t1, truth v1 and confidence c1, and the node count grew by exactly one.
C1_GetIfExists ==
    (lastOp.op = "CreateAtom" /\ lastOp.prev.name = lastOp.name) =>
        LET first == lastOp.prev
            node == heap[lastOp.ret]
        IN /\ lastOp.ret = first.ret
           /\ node.id = first.ret
           /\ m_atomsByName[lastOp.name] = first.ret
           /\ node.type = first.type
           /\ node.truth = first.truth
           /\ node.confidence = first.confidence
           /\ GetAtomCount(Store) = first.countBefore + 1

\* C1 witness: a second call with another type and other values has returned.
C1_Witness ==
    /\ lastOp.op = "CreateAtom"
    /\ lastOp.prev.name = lastOp.name
    /\ lastOp.type # lastOp.prev.type
    /\ lastOp.truth # lastOp.prev.truth
    /\ lastOp.confidence # lastOp.prev.confidence

\* C2: the by-id view and the by-name view hold the same nodes, each keyed by
\* its own id in one and by its own name in the other, and no two live nodes
\* share a name.
C2_ViewsConsistent ==
    /\ \A k \in DOMAIN m_atoms :
          LET a == heap[m_atoms[k]]
          IN a.id = k /\ a.name \in DOMAIN m_atomsByName /\ m_atomsByName[a.name] = m_atoms[k]
    /\ \A n \in DOMAIN m_atomsByName :
          LET a == heap[m_atomsByName[n]]
          IN a.name = n /\ a.id \in DOMAIN m_atoms /\ m_atoms[a.id] = m_atomsByName[n]
    /\ \A j, k \in DOMAIN m_atoms :
          heap[m_atoms[j]].name = heap[m_atoms[k]].name => j = k

\* C2 witness: a node was removed and its name is bound again, to a newer node.
C2_Witness ==
    \E p \in DOMAIN heap :
        /\ p \notin DOMAIN m_atoms
        /\ heap[p].name \in DOMAIN m_atomsByName
        /\ m_atomsByName[heap[p].name] > p

\* C9: after a SetTruthValue(truth, confidence) call the node's truth and
\* confidence are in [0,1]: 0 for an input below 0, 1 for an input above 1,
\* the input itself otherwise.
C9_Clamping ==
    lastOp.op = "SetTruthValue" =>
        LET a == heap[lastOp.atom]
            Expected(v) == IF v < 0 THEN 0 ELSE IF v > One THEN One ELSE v
        IN /\ InUnit(a.truth) /\ InUnit(a.confidence)
           /\ a.truth = Expected(lastOp.truth)
           /\ a.confidence = Expected(lastOp.confidence)

\* C9 witness: a call with truth below 0 and confidence above 1 has returned.
C9_Witness ==
    /\ lastOp.op = "SetTruthValue"
    /\ lastOp.truth < 0
    /\ lastOp.confidence > One

\* C10 as claimed: every node of the store has truth and confidence in [0,1].
C10_AllNodesInUnit ==
    \A k \in DOMAIN m_atoms :
        InUnit(heap[m_atoms[k]].truth) /\ InUnit(heap[m_atoms[k]].confidence)

(***************************************************************************)
(* Properties of the agent lifecycle (checked under SpecAgent, and under   *)
(* FairSpecAgent for liveness).                                            *)
(***************************************************************************)
\* C3 as claimed: whenever Stop() has returned, the agent's state is Inactive
\* and its execution context has exited.
C3_StopLeavesInactive ==
    lastOp.op = "Stop" =>
        /\ m_state[lastOp.agent] = "Inactive"
        /\ thread[lastOp.agent] = "none"

\* C4: a Stop() that has set the flag always eventually returns, with the
\* execution context exited; and once the flag is set the loop test lets no
\* new cycle begin.
C4_StopReturns ==
    /\ \A a \in AgentNames : (a \in caller) ~> (caller = {} /\ thread[a] = "none")
    /\ [][\A a \in AgentNames :
            (a \in caller /\ pc[a] = "check" /\ pc'[a] # "check") => thread'[a] = "finished"]_vars

\* C4 witness: Stop() is blocked in join while the context, which was
\* mid-stage when Stop() was called, has failed into Error and is back at the
\* loop test.
C4_Witness ==
    \E a \in AgentNames :
        /\ a \in caller
        /\ thread[a] = "running"
        /\ pc[a] = "check"
        /\ m_state[a] = "Error"

\* C5 as claimed: after Pause() took a running agent from Active to Inactive,
\* and until Resume() or Stop() is called, the context stays alive, runs no
\* further cycle stage, and the state remains Inactive.  The cycle in flight
\* when Pause() was called is left out: the property is required from the
\* moment the context has passed its timed wait.
C5_PauseSuppressesCycle ==
    \A a \in agents :
        paused[a] = "waited" =>
            /\ thread[a] = "running"
            /\ m_state[a] = "Inactive"
            /\ ~(lastOp.op \in StageOps /\ lastOp.agent = a)

\* C6: Resume() makes the state Active exactly when it was Inactive with the
\* stop flag clear; otherwise it leaves the state as it was: with the flag
\* set (from Stop() until the next Start()) an Inactive agent stays Inactive,
\* and a state other than Inactive is never changed.
C6_ResumeGuard ==
    lastOp.op = "Resume" =>
        LET now == m_state[lastOp.agent]
        IN /\ (lastOp.pre = "Inactive" /\ ~lastOp.stop) => now = "Active"
           /\ (lastOp.pre = "Inactive" /\ lastOp.stop) => now = "Inactive"
           /\ lastOp.pre # "Inactive" => now = lastOp.pre

\* C6 witness: Resume() was called on an Inactive agent after Stop() returned
\* (flag set, no context, nobody joining) and before the next Start().
C6_Witness ==
    /\ lastOp.op = "Resume"
    /\ lastOp.pre = "Inactive"
    /\ lastOp.stop
    /\ ~lastOp.joining
    /\ thread[lastOp.agent] = "none"
    /\ m_state[lastOp.agent] = "Inactive"

(***************************************************************************)
(* Properties of the memory list (checked under SpecMemory).               *)
(***************************************************************************)
\* C7 as claimed: in every reachable state the agent's memory list holds at
\* most 1000 entries.
C7_MemoryBounded ==
    \A a \in agents : Len(m_memories[a]) <= MemoryLimit

\* C8: a Learn stage that finds more than 1000 entries removes exactly the 100
\* at the front and keeps the others in their order; one that finds 1000 or
\* fewer leaves the list as it is.
C8_LearnTrims ==
    lastOp.op = "Learn" =>
        LET found == lastOp.found
            now == m_memories[lastOp.agent]
        IN IF Len(found) > MemoryLimit
           THEN /\ Len(now) = Len(found) - MemoryTrim
                /\ \A i \in 1..Len(now) : now[i] = found[i + MemoryTrim]
           ELSE now = found

\* C8 witness: a Learn stage found more than 1000 entries, not all alike in
\* the part it removed and the part it kept.
C8_Witness ==
    /\ lastOp.op = "Learn"
    /\ Len(lastOp.found) > MemoryLimit
    /\ lastOp.found[1] # lastOp.found[2]
    /\ lastOp.found[Len(lastOp.found)] = lastOp.found[Len(lastOp.found) - 1]

(***************************************************************************)
(* Properties of attention and links (checked under SpecAttention).        *)
(***************************************************************************)
\* The pointers of the atoms the store holds.
Stored == {m_atoms[k] : k \in DOMAIN m_atoms}

NoDuplicates(list) == \A i, j \in 1..Len(list) : list[i] = list[j] => i = j

\* C11 as claimed: in every reachable state every node's attention is at
\* least 0.01.
C11_AttentionFloored ==
    \A p \in DOMAIN heap : heap[p].attention >= AttentionFloor

\* C12: no outgoing or incoming list holds a target twice or holds null, and
\* an AddOutgoingLink/AddIncomingLink call whose target is null or already in
\* the list leaves the list as it found it.
C12_LinksDistinct ==
    /\ \A p \in DOMAIN heap :
          /\ NoDuplicates(heap[p].outgoing) /\ ~SeqContains(heap[p].outgoing, Null)
          /\ NoDuplicates(heap[p].incoming) /\ ~SeqContains(heap[p].incoming, Null)
    /\ (lastOp.op = "AddOutgoingLink"
          /\ (lastOp.target = Null \/ SeqContains(lastOp.pre, lastOp.target)))
       => heap[lastOp.atom].outgoing = lastOp.pre
    /\ (lastOp.op = "AddIncomingLink"
          /\ (lastOp.target = Null \/ SeqContains(lastOp.pre, lastOp.target)))
       => heap[lastOp.atom].incoming = lastOp.pre

\* C12 witness: the same target was added to an outgoing list a second time,
\* and the list is at size 1.
C12_Witness ==
    /\ lastOp.op = "AddOutgoingLink"
    /\ lastOp.target # Null
    /\ lastOp.pre = <<lastOp.target>>
    /\ Len(heap[lastOp.atom].outgoing) = 1

\* The stored nodes that have n among their outgoing links in heap h.
Sources(h, n) == {m \in Stored : SeqContains(h[m].outgoing, n)}

\* C13 as claimed: after a pass, every stored node that had no outgoing links
\* and attention a has attention max(0.01, 0.95*a), whatever links the other
\* nodes have.
C13_NoOutgoingDecays ==
    lastOp.op = "UpdateAttentionValues" =>
        \A n \in Stored :
            lastOp.pre[n].outgoing = <<>> =>
                heap[n].attention =
                    Max(AttentionFloor, (lastOp.pre[n].attention * 95) \div 100)

\* C13 as amended: after a pass, every stored node that had no outgoing links,
\* was in no stored node's outgoing links and had attention a has attention
\* max(0.01, 0.95*a), whatever links the other nodes have among themselves.
C13_IsolatedDecays ==
    lastOp.op = "UpdateAttentionValues" =>
        \A n \in Stored :
            (lastOp.pre[n].outgoing = <<>> /\ Sources(lastOp.pre, n) = {}) =>
                heap[n].attention =
                    Max(AttentionFloor, (lastOp.pre[n].attention * 95) \div 100)

\* C13 witness: a pass over a store where one node links to another found a
\* third node with no links to or from it and attention below the floor.
C13_Witness ==
    /\ lastOp.op = "UpdateAttentionValues"
    /\ \E n \in Stored :
          /\ lastOp.pre[n].outgoing = <<>>
          /\ Sources(lastOp.pre, n) = {}
          /\ lastOp.pre[n].attention < AttentionFloor
          /\ \E m \in Stored \ {n} : lastOp.pre[m].outgoing # <<>>

GoalTruths == {500, 800, 900}

\* What the shared store binds "Plan:G" to before the agent runs.
PriorPlans == {"None", "Process", "Concept"}

\* The store of an agent with goals G and X and the prior plan node.
PlanStore(truthG, truthX, prior) ==
    LET g == CreateAtom(NewAgent(NewAtomSpace, StrA), "Goal", StrG, truthG, 800)
        x == CreateAtom(g.store, "Goal", StrX, truthX, 800)
        goals == AddGoal(x.store, AddGoal(x.store, <<>>, g.ret), x.ret)
    IN [store |-> IF prior = "None" THEN x.store
                  ELSE CreateAtom(x.store, prior, StrPlan \o StrG, 900, 900).store,
        goals |-> goals]

InitPlan ==
    /\ \E truthG \in GoalTruths, truthX \in GoalTruths, prior \in PriorPlans :
          \E r \in {PlanStore(truthG, truthX, prior)} :
              /\ SetInit(r.store)
              /\ ConstructedAgent(r.goals, <<>>)
    /\ budget = [cycles |-> MaxCycles, calls |-> 0]
    /\ lastOp = [op |-> "none"]

NextPlan ==
    \E a \in AgentNames :
        \/ Start(a)
        \/ ThreadStep(a)

SpecPlan == InitPlan /\ [][NextPlan]_vars

(***************************************************************************)
(* SpecAct: consecutive Act() calls of a single agent, nothing else        *)
(* touching the store, on a store holding a plan of the agent's goal (with *)
(* or without the links Plan and a collaborator add), a Process node that  *)
(* is not a plan and a Concept node named like a plan.                     *)
(***************************************************************************)
\* Plan truth values: below, at and just above the 0.4 threshold of Act, the
\* value Plan creates, near the cap and at the cap.
ActTruths == {300, 400, 401, 500, 950, 1000}

\* The store before the first Act(): the agent, its goal G, the plan "Plan:G".
ActStore(truthPlan, confPlan, truthOther, linked) ==
    LET g == CreateAtom(NewAgent(NewAtomSpace, StrA), "Goal", StrG, 500, 800)
        plan == CreateAtom(g.store, "Process", StrPlan \o StrG, truthPlan, confPlan)
        other == CreateAtom(plan.store, "Process", StrX, truthOther, 800)
        named == CreateAtom(other.store, "Concept", StrPlan \o StrX, 500, 800)
        st == named.store
    IN [store |-> IF linked
                  THEN WithAtom(WithAtom(st, g.ret, AddOutgoingLink(st.heap[g.ret], plan.ret)),
                                plan.ret, AddIncomingLink(st.heap[plan.ret], g.ret))
                  ELSE st,
        goals |-> AddGoal(st, <<>>, g.ret)]

\* CognitiveAgent::Act() called on the agent (the stage is a public method).
ActCall(a) ==
    /\ a \in agents /\ ~terminated
    /\ budget.cycles > 0
    /\ budget' = [budget EXCEPT !.cycles = @ - 1]
    /\ \E order \in TableOrders(Store) :
          \E st \in {Act(Store, order)} : SetStore(st)
    /\ lastOp' = [op |-> "Act", agent |-> a, pre |-> Store,
                  first |-> IF lastOp.op = "Act" THEN lastOp.first ELSE heap,
                  count |-> IF lastOp.op = "Act" THEN lastOp.count + 1 ELSE 1]
    /\ UNCHANGED agentVars

InitAct ==
    /\ \E truthPlan \in ActTruths, confPlan \in {300, 800}, truthOther \in {300, 900},
          linked \in BOOLEAN :
          \E r \in {ActStore(truthPlan, confPlan, truthOther, linked)} :
              /\ SetInit(r.store)
              /\ ConstructedAgent(r.goals, <<>>)
    /\ budget = [cycles |-> MaxActs, calls |-> 0]
    /\ lastOp = [op |-> "none"]

NextAct == \E a \in AgentNames : ActCall(a)

SpecAct == InitAct /\ [][NextAct]_vars

(***************************************************************************)
(* SpecBroadcast: a CognitiveSystem whose collaborator creates agents,     *)
(* starts them and broadcasts a message, while the agents' threads run.    *)
(***************************************************************************)
\* "Message:System:m", the name ReceiveMessage("System", "m") gives its node.
StrMessageSystemM == StrMessage \o StrSystem \o StrColon \o StrM

\* CognitiveSystem::BroadcastMessage("m"): ReceiveMessage("System", "m") on
\* every registered agent, under the shared registry lock.  Every delivery
\* gets the same node (CreateAtom is get-if-exists), so the order of the
\* registry does not show in the result.
BroadcastMessageCall ==
    /\ SystemCall
    /\ LET registered == DOMAIN m_agents
           r == CreateAtom(Store, "Memory", StrMessageSystemM, One, 900)
           racing == {a \in registered : PushBackRaces(a)}
       IN \/ /\ IF registered = {} THEN UNCHANGED storeVars ELSE SetStore(r.store)
             /\ \E lost \in SUBSET racing :
                   m_memories' = [a \in DOMAIN m_memories |->
                                     IF a \in registered /\ a \notin lost
                                     THEN Append(m_memories[a], r.ret)
                                     ELSE m_memories[a]]
             /\ lastOp' = [op |-> "BroadcastMessage",
                           pre |-> [registry |-> m_agents, memories |-> m_memories,
                                    state |-> m_state, byName |-> m_atomsByName,
                                    thread |-> thread]]
             /\ UNCHANGED terminated
          \/ /\ racing # {}
             /\ terminated' = TRUE
             /\ lastOp' = [op |-> "Crash"]
             /\ UNCHANGED <<storeVars, m_memories>>
    /\ UNCHANGED <<agents, m_state, m_shouldStop, thread, pc, m_goals, caller, paused,
                   m_initialized, m_agents, m_configuration, constructed, manager, sysCall>>

NextBroadcast ==
    \/ CreateAgentCall
    \/ BroadcastMessageCall
    \/ \E a \in SystemNames :
          \/ SystemIdle /\ Start(a)
          \/ ThreadStep(a)

SpecBroadcast == InitSystem /\ [][NextBroadcast]_vars

(***************************************************************************)
(* SpecCycle: the execution context of one started agent on its own, from  *)
(* the return of Start() on: every step is a step of ProcessingLoop, so    *)
(* lastOp is the step the thread made last.                                *)
(***************************************************************************)
\* The agent fields after construction and Start().
StartedAgent(goals, mems) ==
    /\ NoSystem
    /\ agents = AgentNames
    /\ m_state = [a \in AgentNames |-> "Active"]
    /\ m_shouldStop = [a \in AgentNames |-> FALSE]
    /\ thread = [a \in AgentNames |-> "running"]
    /\ pc = [a \in AgentNames |-> "check"]
    /\ m_goals = [a \in AgentNames |-> goals]
    /\ m_memories = [a \in AgentNames |-> mems]
    /\ paused = [a \in AgentNames |-> "no"]
    /\ caller = {}
    /\ terminated = FALSE

InitCycle ==
    /\ \E truthG \in GoalTruths, truthX \in GoalTruths, prior \in PriorPlans :
          \E r \in {PlanStore(truthG, truthX, prior)} :
              /\ SetInit(r.store)
              /\ StartedAgent(r.goals, <<>>)
    /\ budget = [cycles |-> MaxCycles, calls |-> 0]
    /\ lastOp = [op |-> "Start", agent |-> StrA, pre |-> "Inactive", joinable |-> FALSE]

NextCycle == \E a \in AgentNames : ThreadStep(a)

SpecCycle == InitCycle /\ [][NextCycle]_vars

(***************************************************************************)
(* SpecPerceive: the thread of one started agent over a store in which the *)
(* agent's goal G and the plan "Plan:G" have an attention at or above the  *)
(* 0.7 threshold of Perceive, and in which the name "Perceived:G" is       *)
(* unbound or bound before the first perception.  Act raises the plan's    *)
(* truth in every cycle, so later perceptions find a changed source.       *)
(***************************************************************************)
\* Attention values at the threshold of Perceive and above it.
PerceiveAttentions == {700, 900}

\* What the store binds "Perceived:G" to before the first Perceive stage.
PriorMemories == {"None", "Memory", "Concept"}

PerceiveStore(attentionG, attentionPlan, prior) ==
    LET g == CreateAtom(NewAgent(NewAtomSpace, StrA), "Goal", StrG, 500, 800)
        plan == CreateAtom(g.store, "Process", StrPlan \o StrG, 500, 800)
        s1 == WithAtom(plan.store, g.ret, SetAttention(plan.store.heap[g.ret], attentionG))
        s2 == WithAtom(s1, plan.ret, SetAttention(s1.heap[plan.ret], attentionPlan))
    IN [store |-> IF prior = "None" THEN s2
                  ELSE CreateAtom(s2, prior, StrPerceived \o StrG, 100, 200).store,
        goals |-> AddGoal(s2, <<>>, g.ret)]

InitPerceive ==
    /\ \E attentionG \in PerceiveAttentions, attentionPlan \in PerceiveAttentions,
          prior \in PriorMemories :
          \E r \in {PerceiveStore(attentionG, attentionPlan, prior)} :
              /\ SetInit(r.store)
              /\ StartedAgent(r.goals, <<>>)
    /\ budget = [cycles |-> MaxCycles, calls |-> 0]
    /\ lastOp = [op |-> "Start", agent |-> StrA, pre |-> "Inactive", joinable |-> FALSE]

NextPerceive == \E a \in AgentNames : ThreadStep(a)

SpecPerceive == InitPerceive /\ [][NextPerceive]_vars

(***************************************************************************)
(* SpecReason: the thread of one started agent over a store holding a      *)
(* Concept node "X" that Perceive perceives or not, and possibly a Concept *)
(* node ":X", whose name contains that of the first after a colon.         *)
(***************************************************************************)
\* The store before the thread's first cycle.
ReasonStore(attentionX, other, truthOther) ==
    LET x == CreateAtom(NewAgent(NewAtomSpace, StrA), "Concept", StrX, 300, 800)
        s1 == WithAtom(x.store, x.ret, SetAttention(x.store.heap[x.ret], attentionX))
    IN IF other THEN CreateAtom(s1, "Concept", StrColon \o StrX, truthOther, 800).store
       ELSE s1

InitReason ==
    /\ \E attentionX \in PerceiveAttentions, other \in BOOLEAN, truthOther \in {500, 900} :
          /\ SetInit(ReasonStore(attentionX, other, truthOther))
          /\ StartedAgent(<<>>, <<>>)
    /\ budget = [cycles |-> MaxCycles, calls |-> 0]
    /\ lastOp = [op |-> "Start", agent |-> StrA, pre |-> "Inactive", joinable |-> FALSE]

NextReason == \E a \in AgentNames : ThreadStep(a)

SpecReason == InitReason /\ [][NextReason]_vars

(***************************************************************************)
(* SpecLearn: the thread of one started agent over a store to which        *)
(* CognitiveIntegrationManager::UpdateCognitiveKnowledge(concept,          *)
(* information, confidence) added the Concept node "X" (truth 0.5, the     *)
(* caller's confidence, attention raised by 0.1 or left at its default),   *)
(* and that holds a Goal node whose attention is above 0.5.                *)
(***************************************************************************)
\* The confidences the caller passes, below, inside and above [0,1].
LearnConfidences == {-500, 600, 995, 1500}

\* The store before the thread's first cycle.
LearnStore(confidence, raised) ==
    LET x == CreateAtom(NewAgent(NewAtomSpace, StrA), "Concept", StrX, 500, confidence)
        s1 == IF raised
              THEN WithAtom(x.store, x.ret,
                            SetAttention(x.store.heap[x.ret],
                                         x.store.heap[x.ret].attention + 100))
              ELSE x.store
        g == CreateAtom(s1, "Goal", StrG, 500, 800)
    IN WithAtom(g.store, g.ret, SetAttention(g.store.heap[g.ret], 900))

InitLearn ==
    /\ \E confidence \in LearnConfidences, raised \in BOOLEAN :
          /\ SetInit(LearnStore(confidence, raised))
          /\ StartedAgent(<<>>, <<>>)
    /\ budget = [cycles |-> MaxCycles, calls |-> 0]
    /\ lastOp = [op |-> "Start", agent |-> StrA, pre |-> "Inactive", joinable |-> FALSE]

SpecLearn == InitLearn /\ [][NextCycle]_vars

(***************************************************************************)
(* SpecSelfModify: SelfModify() and Act() called on one agent, over a      *)
(* store holding the plans "Plan:G" and "Plan:X", a Process node that is   *)
(* not a plan, and possibly a node that already bears the rule's name.     *)
(***************************************************************************)
\* The truths of "Plan:G": not advanced by Act, just above 0.8, and 1.0.
SelfModifyTruths == {300, 801, 1000}

\* The store before the first call; "Plan:X" is at exactly 0.8.
SelfModifyStore(truthPlan, prior) ==
    LET plan == CreateAtom(NewAgent(NewAtomSpace, StrA), "Process", StrPlan \o StrG,
                           truthPlan, 700)
        planX == CreateAtom(plan.store, "Process", StrPlan \o StrX, 800, 600)
        other == CreateAtom(planX.store, "Process", StrX, 900, 800)
    IN IF prior = "None" THEN other.store
       ELSE CreateAtom(other.store, prior, StrRule \o StrPlan \o StrG, 200, 200).store

\* CognitiveAgent::SelfModify() called on the agent (the stage is a public method).
SelfModifyCall(a) ==
    /\ a \in agents /\ ~terminated
    /\ budget.cycles > 0
    /\ budget' = [budget EXCEPT !.cycles = @ - 1]
    /\ \E order \in TableOrders(Store) :
          \E st \in {SelfModify(Store, order)} : SetStore(st)
    /\ m_state' = [m_state EXCEPT ![a] = "SelfModifying"]
    /\ lastOp' = [op |-> "SelfModify", agent |-> a, pre |-> Store]
    /\ UNCHANGED <<sysVars, agents, m_shouldStop, thread, pc, m_goals, m_memories,
                   caller, terminated, paused>>

InitSelfModify ==
    /\ \E truthPlan \in SelfModifyTruths, prior \in {"None", "Rule", "Concept"} :
          /\ SetInit(SelfModifyStore(truthPlan, prior))
          /\ ConstructedAgent(<<>>, <<>>)
    /\ budget = [cycles |-> MaxActs, calls |-> 0]
    /\ lastOp = [op |-> "none"]

NextSelfModify ==
    \E a \in AgentNames :
        \/ SelfModifyCall(a)
        \/ ActCall(a)

SpecSelfModify == InitSelfModify /\ [][NextSelfModify]_vars

(***************************************************************************)
(* SpecRemove: the thread of one started agent, whose stages link nodes    *)
(* and fill the memory list, and RemoveAtom calls made by holders of the   *)
(* store while it runs.                                                    *)
(***************************************************************************)
\* The ids a holder asks to remove: those of the agent's goals, of the nodes
\* the goals link to, of the agent's memories, and one that was never assigned.
RemoveIds ==
    LET InList(p) == \E a \in agents : SeqContains(m_goals[a], p) \/ SeqContains(m_memories[a], p)
        Linked(p) == \E a \in agents : \E i \in DOMAIN m_goals[a] :
                        SeqContains(heap[m_goals[a][i]].outgoing, p)
    IN {heap[p].id : p \in {r \in DOMAIN heap : InList(r) \/ Linked(r)}} \cup {s_nextId}

\* AtomSpace::RemoveAtom called with such an id, stored or not.
RemoveReferencedCall ==
    \E id \in RemoveIds :
        /\ ~terminated
        /\ budget.calls < MaxCalls
        /\ budget' = [budget EXCEPT !.calls = @ + 1]
        /\ LET r == RemoveAtom(Store, id)
           IN /\ SetStore(r.store)
              /\ lastOp' = [op |-> "RemoveAtom", id |-> id, ret |-> r.ret, pre |-> Store,
                            goals |-> m_goals, memories |-> m_memories]
        /\ UNCHANGED agentVars

NextRemove ==
    \/ RemoveReferencedCall
    \/ \E a \in AgentNames : ThreadStep(a)

\* The agent started on a store with a goal below 0.8 and an achieved goal.
InitRemove ==
    /\ \E r \in {PlanStore(500, 900, "None")} :
          /\ SetInit(r.store)
          /\ StartedAgent(r.goals, <<>>)
    /\ budget = [cycles |-> MaxCycles, calls |-> 0]
    /\ lastOp = [op |-> "Start", agent |-> StrA, pre |-> "Inactive", joinable |-> FALSE]

SpecRemove == InitRemove /\ [][NextRemove]_vars

(***************************************************************************)
(* SpecRace: two agents on one store run Act on the same plan while the    *)
(* system's thread runs UpdateAttentionValues and another holder calls     *)
(* SetAttention on that plan.  No lock covers a node's fields (Act and     *)
(* SetAttention take none, the pass holds the table's lock shared), so the *)
(* reads and writes of the fields interleave; a float is read and written  *)
(* whole.  Here pc[a] is the agent's position in Act with the truth it     *)
(* read, and sysCall is the position of the pass with the attention it     *)
(* read.                                                                   *)
(***************************************************************************)
\* The truths of the plan: not advanced, inside (0.4, 0.8], and near 1.0.
RaceTruths == {300, 500, 800, 950}

\* The store: both agents' self-concepts and the plan "Plan:G".
RaceStore(truthPlan) ==
    CreateAtom(NewAgent(NewAgent(NewAtomSpace, StrA), StrB), "Process", StrPlan \o StrG,
               truthPlan, 800)

\* Act, line 336: the value written from the truth read.
ActWrittenAtomically(atom, read) == SetTruthValue(atom, atom.truth + 100, atom.confidence)

ActWritten(atom, read) == SetTruthValue(atom, read + 100, atom.confidence)

\* Act, lines 335-336: the test of the plan and the read of its truth.
ActRead(a) ==
    /\ pc[a].at = "act"
    /\ LET plan == heap[m_atomsByName[StrPlan \o StrG]]
       IN pc' = [pc EXCEPT ![a] =
                    IF Substr(plan.name, 0, 5) = StrPlan /\ plan.truth > 400
                    THEN [at |-> "write", read |-> plan.truth]
                    ELSE [at |-> "done", read |-> plan.truth]]
    /\ lastOp' = [lastOp EXCEPT !.op = "ActRead", !.agent = a]
    /\ UNCHANGED <<storeVars, sysVars, agents, m_state, m_shouldStop, thread, m_goals,
                   m_memories, caller, terminated, budget, paused>>

\* Act, line 336: SetTruthValue(the truth read + 0.1f, confidence).
ActWrite(a) ==
    /\ pc[a].at = "write"
    /\ heap' = [heap EXCEPT ![m_atomsByName[StrPlan \o StrG]] = ActWritten(@, pc[a].read)]
    /\ pc' = [pc EXCEPT ![a].at = "done"]
    /\ lastOp' = [lastOp EXCEPT !.op = "ActWrite", !.agent = a]
    /\ UNCHANGED <<s_nextId, m_atoms, m_atomsByName, sysVars, agents, m_state, m_shouldStop,
                   thread, m_goals, m_memories, caller, terminated, budget, paused>>

\* UpdateAttentionValues, lines 153-154: the nodes before the plan are
\* visited, then the plan's attention is read.
PassRead ==
    /\ sysCall.op = "none"
    /\ \E order \in TableOrders(Store) :
          LET i == Position(order, m_atomsByName[StrPlan \o StrG])
              h == UpdateAttentionLoop(heap, SubSeq(order, 1, i - 1))
          IN /\ heap' = h
             /\ sysCall' = [op |-> "UpdateAttentionValues", order |-> order,
                            read |-> h[order[i]].attention, overwritten |-> FALSE]
    /\ lastOp' = [lastOp EXCEPT !.op = "PassRead", !.agent = <<>>]
    /\ UNCHANGED <<s_nextId, m_atoms, m_atomsByName, m_initialized, m_agents,
                   m_configuration, constructed, manager, agents, m_state, m_shouldStop, thread, pc,
                   m_goals, m_memories, caller, terminated, budget, paused>>

\* UpdateAttentionValues, line 168: the plan (it has no outgoing links) gets
\* max(0.01, 0.95 * the attention read), then the other nodes are visited.
PassWrite ==
    /\ sysCall.op = "UpdateAttentionValues"
    /\ LET i == Position(sysCall.order, m_atomsByName[StrPlan \o StrG])
           h == [heap EXCEPT ![sysCall.order[i]] = SetAttention(@, Decayed(sysCall.read))]
       IN heap' = UpdateAttentionLoop(h, SubSeq(sysCall.order, i + 1, Len(sysCall.order)))
    /\ sysCall' = [sysCall EXCEPT !.op = "done"]
    /\ lastOp' = [lastOp EXCEPT !.op = "PassWrite", !.agent = <<>>]
    /\ UNCHANGED <<s_nextId, m_atoms, m_atomsByName, m_initialized, m_agents,
                   m_configuration, constructed, manager, agents, m_state, m_shouldStop, thread, pc,
                   m_goals, m_memories, caller, terminated, budget, paused>>

\* Atom::SetAttention(v) called on the plan by another holder of the store.
SetAttentionRacing ==
    \E v \in {0, One} :
        /\ budget.calls < MaxCalls
        /\ budget' = [budget EXCEPT !.calls = @ + 1]
        /\ heap' = [heap EXCEPT ![m_atomsByName[StrPlan \o StrG]] = SetAttention(@, v)]
        /\ sysCall' = IF sysCall.op = "UpdateAttentionValues"
                      THEN [sysCall EXCEPT !.overwritten = TRUE]
                      ELSE sysCall
        /\ lastOp' = [lastOp EXCEPT !.op = "SetAttention", !.agent = <<>>]
        /\ UNCHANGED <<s_nextId, m_atoms, m_atomsByName, m_initialized, m_agents,
                       m_configuration, constructed, manager, agents, m_state, m_shouldStop, thread,
                       pc, m_goals, m_memories, caller, terminated, paused>>

InitRace ==
    /\ \E truthPlan \in RaceTruths :
          \E r \in {RaceStore(truthPlan)} :
             /\ SetInit(r.store)
             /\ lastOp = [op |-> "none", agent |-> <<>>, first |-> r.store.heap[r.ret]]
    /\ m_initialized = TRUE
    /\ m_agents = [a \in SystemNames |-> IF a = StrA THEN 1 ELSE 2]
    /\ m_configuration = NoAgents
    /\ constructed = 2
    /\ manager = NoManager
    /\ sysCall = [op |-> "none"]
    /\ agents = SystemNames
    /\ m_state = [a \in SystemNames |-> "Active"]
    /\ m_shouldStop = [a \in SystemNames |-> FALSE]
    /\ thread = [a \in SystemNames |-> "running"]
    /\ pc = [a \in SystemNames |-> [at |-> "act", read |-> 0]]
    /\ m_goals = [a \in SystemNames |-> <<>>]
    /\ m_memories = [a \in SystemNames |-> <<>>]
    /\ paused = [a \in SystemNames |-> "no"]
    /\ caller = {}
    /\ terminated = FALSE
    /\ budget = [cycles |-> 0, calls |-> 0]

NextRace ==
    \/ \E a \in SystemNames : ActRead(a) \/ ActWrite(a)
    \/ PassRead
    \/ PassWrite
    \/ SetAttentionRacing

SpecRace == InitRace /\ [][NextRace]_vars

(***************************************************************************)
(* SpecCreate: two threads call CreateAtom with the same name while a      *)
(* third looks the name up in both tables.  m_mutex is held exclusively by *)
(* the thread that is inside CreateAtom and is free otherwise; pc[a] is    *)
(* the caller's position in CreateAtom with the node it made or returned.  *)
(***************************************************************************)
\* The positions at which a thread holds m_mutex exclusively.
Critical == {"locked", "construct", "insertId", "insertName"}

\* Mutant of MutexFree: the lock is granted whoever holds it.
MutexIgnored(a) == TRUE

\* m_mutex can be taken by thread a (the reader passes <<>>): no other thread
\* is inside CreateAtom and, for a writer, the reader does not hold it shared.
MutexFree(a) ==
    /\ \A b \in SystemNames \ {a} : pc[b].at \notin Critical
    /\ a # <<>> => sysCall.op # "Looking"

\* The truth each caller passes, to tell the callers' nodes apart.
CallerTruth(a) == IF a = StrA THEN 300 ELSE 900

\* CreateAtom, line 75: std::unique_lock lock(m_mutex).
CreateLock(a) ==
    /\ pc[a].at = "call"
    /\ MutexFree(a)
    /\ pc' = [pc EXCEPT ![a].at = "locked"]
    /\ lastOp' = [op |-> "CreateLock", agent |-> a]
    /\ UNCHANGED <<storeVars, sysVars, agents, m_state, m_shouldStop, thread, m_goals,
                   m_memories, caller, terminated, budget, paused>>

\* CreateAtom, lines 78-81: the name is looked up; the node bound to it is
\* returned (and the lock released).
CreateFind(a) ==
    /\ pc[a].at = "locked"
    /\ pc' = [pc EXCEPT ![a] = IF StrX \in DOMAIN m_atomsByName
                               THEN [at |-> "done", ret |-> m_atomsByName[StrX]]
                               ELSE [at |-> "construct", ret |-> Null]]
    /\ lastOp' = [op |-> "CreateFind", agent |-> a]
    /\ UNCHANGED <<storeVars, sysVars, agents, m_state, m_shouldStop, thread, m_goals,
                   m_memories, caller, terminated, budget, paused>>

\* CreateAtom, line 83: std::make_shared<Atom>(...), which takes the next id.
CreateConstruct(a) ==
    /\ pc[a].at = "construct"
    /\ heap' = [k \in DOMAIN heap \cup {s_nextId} |->
                  IF k = s_nextId
                  THEN NewAtom("Concept", StrX, s_nextId, CallerTruth(a), 800)
                  ELSE heap[k]]
    /\ s_nextId' = s_nextId + 1
    /\ pc' = [pc EXCEPT ![a] = [at |-> "insertId", ret |-> s_nextId]]
    /\ lastOp' = [op |-> "CreateConstruct", agent |-> a]
    /\ UNCHANGED <<m_atoms, m_atomsByName, sysVars, agents, m_state, m_shouldStop, thread,
                   m_goals, m_memories, caller, terminated, budget, paused>>

\* CreateAtom, line 84: m_atoms[atom->GetId()] = atom.
CreateInsertId(a) ==
    /\ pc[a].at = "insertId"
    /\ m_atoms' = Extend(m_atoms, heap[pc[a].ret].id, pc[a].ret)
    /\ pc' = [pc EXCEPT ![a].at = "insertName"]
    /\ lastOp' = [op |-> "CreateInsertId", agent |-> a]
    /\ UNCHANGED <<heap, s_nextId, m_atomsByName, sysVars, agents, m_state, m_shouldStop,
                   thread, m_goals, m_memories, caller, terminated, budget, paused>>

\* CreateAtom, lines 85-87: m_atomsByName[name] = atom; return atom (and the
\* lock is released).
CreateInsertName(a) ==
    /\ pc[a].at = "insertName"
    /\ m_atomsByName' = Extend(m_atomsByName, StrX, pc[a].ret)
    /\ pc' = [pc EXCEPT ![a].at = "done"]
    /\ lastOp' = [op |-> "CreateInsertName", agent |-> a]
    /\ UNCHANGED <<heap, s_nextId, m_atoms, sysVars, agents, m_state, m_shouldStop,
                   thread, m_goals, m_memories, caller, terminated, budget, paused>>

\* The caller makes its next call (every cycle of an agent asks for the same
\* names again).
CreateAgain(a) ==
    /\ pc[a].at = "done"
    /\ budget.cycles > 0
    /\ budget' = [budget EXCEPT !.cycles = @ - 1]
    /\ pc' = [pc EXCEPT ![a] = [at |-> "call", ret |-> Null]]
    /\ lastOp' = [op |-> "CreateAgain", agent |-> a]
    /\ UNCHANGED <<storeVars, sysVars, agents, m_state, m_shouldStop, thread, m_goals,
                   m_memories, caller, terminated, paused>>

\* AtomSpace::Query, line 138: std::shared_lock lock(m_mutex) on a third thread.
LookupLock ==
    /\ sysCall.op # "Looking"
    /\ MutexFree(<<>>)
    /\ budget.calls < MaxCalls
    /\ budget' = [budget EXCEPT !.calls = @ + 1]
    /\ sysCall' = [op |-> "Looking"]
    /\ lastOp' = [op |-> "LookupLock", agent |-> <<>>]
    /\ UNCHANGED <<storeVars, m_initialized, m_agents, m_configuration, constructed, manager,
                   agents, m_state, m_shouldStop, thread, pc, m_goals, m_memories, caller,
                   terminated, paused>>

\* AtomSpace::Query (for the name) and AtomSpace::FindAtom under the shared
\* lock: what the two tables show; the lock is then released.
LookupCall ==
    /\ sysCall.op = "Looking"
    /\ UNCHANGED budget
    /\ sysCall' = [op |-> "Lookup",
                   byId |-> {m_atoms[k] : k \in {j \in DOMAIN m_atoms :
                                                    heap[m_atoms[j]].name = StrX}},
                   byName |-> {m_atomsByName[n] : n \in {StrX} \cap DOMAIN m_atomsByName}]
    /\ lastOp' = [op |-> "Lookup", agent |-> <<>>]
    /\ UNCHANGED <<storeVars, m_initialized, m_agents, m_configuration, constructed, manager,
                   agents, m_state, m_shouldStop, thread, pc, m_goals, m_memories, caller,
                   terminated, paused>>

InitCreate ==
    /\ SetInit(NewAgent(NewAgent(NewAtomSpace, StrA), StrB))
    /\ m_initialized = TRUE
    /\ m_agents = [a \in SystemNames |-> IF a = StrA THEN 1 ELSE 2]
    /\ m_configuration = NoAgents
    /\ constructed = 2
    /\ manager = NoManager
    /\ sysCall = [op |-> "none"]
    /\ agents = SystemNames
    /\ m_state = [a \in SystemNames |-> "Active"]
    /\ m_shouldStop = [a \in SystemNames |-> FALSE]
    /\ thread = [a \in SystemNames |-> "running"]
    /\ pc = [a \in SystemNames |-> [at |-> "call", ret |-> Null]]
    /\ m_goals = [a \in SystemNames |-> <<>>]
    /\ m_memories = [a \in SystemNames |-> <<>>]
    /\ paused = [a \in SystemNames |-> "no"]
    /\ caller = {}
    /\ terminated = FALSE
    /\ budget = [cycles |-> MaxCycles, calls |-> 0]
    /\ lastOp = [op |-> "none"]

NextCreate ==
    \/ \E a \in SystemNames :
          \/ CreateLock(a)
          \/ CreateFind(a)
          \/ CreateConstruct(a)
          \/ CreateInsertId(a)
          \/ CreateInsertName(a)
          \/ CreateAgain(a)
    \/ LookupLock
    \/ LookupCall

SpecCreate == InitCreate /\ [][NextCreate]_vars

(***************************************************************************)
(* SpecManager: one CognitiveIntegrationManager and the calls of its       *)
(* owner: Initialize, Shutdown and the four WSL event handlers.  Every     *)
(* call runs under m_mutex, so each is one step.  The threads of the       *)
(* agents the manager starts are not scheduled here: no step of theirs     *)
(* reads or writes a field of the manager.                                 *)
(***************************************************************************)
StrWSLProcess == <<"W", "S", "L", "_", "P", "r", "o", "c", "e", "s", "s">>

StrWSLDistribution == <<"W", "S", "L", "_", "D", "i", "s", "t", "r", "i", "b", "u", "t", "i", "o", "n">>

StrWSLSystem == <<"W", "S", "L", "_", "S", "y", "s", "t", "e", "m">>

StrOptimizeWSLPerformance == <<"O", "p", "t", "i", "m", "i", "z", "e", "W", "S", "L", "P", "e", "r", "f", "o", "r", "m", "a", "n", "c", "e">>

StrEnsureSystemSecurity == <<"E", "n", "s", "u", "r", "e", "S", "y", "s", "t", "e", "m", "S", "e", "c", "u", "r", "i", "t", "y">>

StrSystemMonitor == <<"S", "y", "s", "t", "e", "m", "M", "o", "n", "i", "t", "o", "r">>

StrProcessOptimizer == <<"P", "r", "o", "c", "e", "s", "s", "O", "p", "t", "i", "m", "i", "z", "e", "r">>

StrSecurityAnalyzer == <<"S", "e", "c", "u", "r", "i", "t", "y", "A", "n", "a", "l", "y", "z", "e", "r">>

StrMonitorSystem == <<"M", "o", "n", "i", "t", "o", "r", "S", "y", "s", "t", "e", "m", ":">>

StrEnsureSecurity == <<"E", "n", "s", "u", "r", "e", "S", "e", "c", "u", "r", "i", "t", "y", ":">>

StrProcess == <<"P", "r", "o", "c", "e", "s", "s", ":">>

StrCommand == <<"C", "o", "m", "m", "a", "n", "d", ":">>

StrCompletion == <<"C", "o", "m", "p", "l", "e", "t", "i", "o", "n", ":">>

StrDistro == <<"D", "i", "s", "t", "r", "o", ":">>

StrInfo == <<"_", "I", "n", "f", "o", ":">>

StrProcessCreate == <<"p", "r", "o", "c", "e", "s", "s", "_", "c", "r", "e", "a", "t", "e">>

StrProcessDestroy == <<"p", "r", "o", "c", "e", "s", "s", "_", "d", "e", "s", "t", "r", "o", "y">>

StrDistroEvent == <<"d", "i", "s", "t", "r", "o", "_", "e", "v", "e", "n", "t">>

StrSystemEvent == <<"s", "y", "s", "t", "e", "m", "_", "e", "v", "e", "n", "t">>

StrSystemLower == <<"s", "y", "s", "t", "e", "m">>

StrD == <<"d">>

StrE == <<"e">>

Digits == <<"0", "1", "2", "3", "4", "5", "6", "7", "8", "9">>

RECURSIVE to_string_digits(_)
\* The decimal digits of the natural n.
to_string_digits(n) ==
    IF n < 10 THEN <<Digits[n + 1]>>
    ELSE to_string_digits(n \div 10) \o <<Digits[(n % 10) + 1]>>

\* std::to_string of an integer.
to_string(i) == IF i < 0 THEN <<"-">> \o to_string_digits(-i) ELSE to_string_digits(i)

\* The arguments of the handlers that are explored.
DistroIds == {StrD}

ProcessIds == {7, 12}

Commands == {StrX}

ExitCodes == {0, 1}

EventTypes == {StrE}

EventData == {StrM}

\* Initialize, lines 62-64: the default agents and their roles.
DefaultAgents ==
    <<[name |-> StrSystemMonitor, role |-> "monitoring"],
      [name |-> StrProcessOptimizer, role |-> "optimization"],
      [name |-> StrSecurityAnalyzer, role |-> "security"]>>

\* Where Initialize is made to fail: 0, std::make_unique throws (line 50); k,
\* the std::thread constructor throws in the Start() of the k-th default agent
\* (line 202, cognitive.cpp:212); past the last agent, nothing throws.
InitializeFailures == 0 .. Len(DefaultAgents) + 1

\* The CognitiveSystem the manager owns, as one value.
ManagerSystem ==
    [store |-> Store, registry |-> m_agents, goals |-> m_goals, memories |-> m_memories,
     state |-> m_state, thread |-> thread, constructed |-> constructed,
     initialized |-> m_initialized, configuration |-> m_configuration]

\* AtomSpace::AtomSpace when Atom::s_nextId (a static of the process) is nextId.
NewAtomSpaceAt(nextId) ==
    LET s0 == [heap |-> <<>>, nextId |-> nextId, atoms |-> <<>>, byName |-> <<>>]
        s1 == CreateAtom(s0, "Concept", StrSelf, One, One).store
        s2 == CreateAtom(s1, "Concept", StrSystem, One, One).store
    IN CreateAtom(s2, "Concept", StrWSL, One, One).store

\* AtomSpace::FindAtom(name): the pointer, or Null.
FindAtom(st, name) == IF name \in DOMAIN st.byName THEN st.byName[name] ELSE Null

\* The system fields while m_cognitiveSystem is null: no atom space, no agent
\* (n agent objects were constructed so far, Atom::s_nextId is nextId).
NullSystem(nextId, n) ==
    [store |-> [heap |-> <<>>, nextId |-> nextId, atoms |-> <<>>, byName |-> <<>>],
     registry |-> NoAgents, goals |-> NoAgents, memories |-> NoAgents, state |-> NoAgents,
     thread |-> NoAgents, constructed |-> n, initialized |-> FALSE,
     configuration |-> NoAgents]

\* std::make_unique<CognitiveSystem>() when n objects were constructed before
\* and Atom::s_nextId is nextId.
NewSystem(nextId, n) ==
    [store |-> NewAtomSpaceAt(nextId), registry |-> NoAgents,
     goals |-> NoAgents, memories |-> NoAgents, state |-> NoAgents, thread |-> NoAgents,
     constructed |-> n, initialized |-> FALSE, configuration |-> NoAgents]

\* The variables of the system become those of sys.
SetSystem(sys) ==
    /\ SetStore(sys.store)
    /\ m_agents' = sys.registry
    /\ agents' = DOMAIN sys.registry
    /\ m_goals' = sys.goals
    /\ m_memories' = sys.memories
    /\ m_state' = sys.state
    /\ thread' = sys.thread
    /\ m_shouldStop' = [a \in DOMAIN sys.registry |-> FALSE]
    /\ pc' = [a \in DOMAIN sys.registry |->
                 IF sys.thread[a] = "running" THEN "check" ELSE "none"]
    /\ paused' = [a \in DOMAIN sys.registry |-> "no"]
    /\ constructed' = sys.constructed
    /\ m_initialized' = sys.initialized
    /\ m_configuration' = sys.configuration

\* CognitiveSystem::Initialize on sys.
SystemInitialize(sys) ==
    IF sys.initialized THEN sys
    ELSE [sys EXCEPT !.initialized = TRUE,
                     !.store = InitializeAtoms(sys.store),
                     !.configuration = InitializeConfiguration(sys.configuration)]

\* CognitiveSystem::CreateAgent(name) on sys.
SystemCreateAgent(sys, name) ==
    IF RegistryFind(sys.registry, name) THEN sys
    ELSE LET g == CreateAtom(NewAgent(sys.store, name), "Goal", StrAgentGoal \o name,
                             500, 800)
         IN [sys EXCEPT !.store = g.store,
                        !.registry = Extend(sys.registry, name, sys.constructed + 1),
                        !.goals = Extend(sys.goals, name, AddGoal(g.store, <<>>, g.ret)),
                        !.memories = Extend(sys.memories, name, <<>>),
                        !.state = Extend(sys.state, name, "Inactive"),
                        !.thread = Extend(sys.thread, name, "none"),
                        !.constructed = sys.constructed + 1]

\* CreateCognitiveAgent, lines 190-199: the goal of the role.
RoleGoal(role, name) ==
    CASE role = "monitoring" ->
             [given |-> TRUE, name |-> StrMonitorSystem \o name, truth |-> 900,
              confidence |-> 800]
      [] role = "optimization" ->
             [given |-> TRUE, name |-> StrOptimizePerformance \o StrColon \o name,
              truth |-> 800, confidence |-> 900]
      [] role = "security" ->
             [given |-> TRUE, name |-> StrEnsureSecurity \o name, truth |-> One,
              confidence |-> One]
      [] OTHER -> [given |-> FALSE]

\* CognitiveSystem::BroadcastMessage(message) on sys, no agent's thread being
\* in a stage that uses its memory list.
SystemBroadcast(sys, message) ==
    IF DOMAIN sys.registry = {} THEN sys
    ELSE LET r == CreateAtom(sys.store, "Memory",
                             StrMessage \o StrSystem \o StrColon \o message, One, 900)
         IN [sys EXCEPT !.store = r.store,
                        !.memories = [a \in DOMAIN sys.memories |->
                                         Append(sys.memories[a], r.ret)]]

\* CreateCognitiveAgent(name, role) on the manager m and its system sys;
\* startThrows: the std::thread constructor throws in Start().  threw tells
\* that the exception leaves the call.
CreateCognitiveAgent(m, sys, name, role, startThrows) ==
    IF ~m.system THEN [manager |-> m, system |-> sys, threw |-> FALSE]
    ELSE LET s1 == SystemCreateAgent(sys, name)
             rg == RoleGoal(role, name)
             g == CreateAtom(s1.store, "Goal", rg.name, rg.truth, rg.confidence)
             s2 == IF rg.given
                   THEN [s1 EXCEPT !.store = g.store,
                                   !.goals[name] = AddGoal(g.store, s1.goals[name], g.ret)]
                   ELSE s1
             starts == s2.state[name] = "Inactive"
             s3 == IF starts
                   THEN [s2 EXCEPT !.state[name] = "Active",
                                   !.thread[name] = IF startThrows THEN @ ELSE "running"]
                   ELSE s2
         IN IF starts /\ startThrows
            THEN [manager |-> m, system |-> s3, threw |-> TRUE]
            ELSE [manager |-> [m EXCEPT !.stats.cognitiveAgents = @ + 1],
                  system |-> s3, threw |-> FALSE]

RECURSIVE CreateDefaultAgents(_, _, _, _)
\* Initialize, lines 62-64, from the k-th default agent on; failAt is the
\* agent whose Start() throws.
CreateDefaultAgents(m, sys, k, failAt) ==
    IF k > Len(DefaultAgents) THEN [manager |-> m, system |-> sys, threw |-> FALSE]
    ELSE CHOOSE after \in
             {IF r.threw THEN r ELSE CreateDefaultAgents(r.manager, r.system, k + 1, failAt) :
                 r \in {CreateCognitiveAgent(m, sys, DefaultAgents[k].name,
                                             DefaultAgents[k].role, failAt = k)}} : TRUE

\* Initialize, lines 55-59: the WSL concepts and goals.
InitializeWslAtoms(st) ==
    LET s1 == CreateAtom(st, "Concept", StrWSLProcess, One, One).store
        s2 == CreateAtom(s1, "Concept", StrWSLDistribution, One, One).store
        s3 == CreateAtom(s2, "Concept", StrWSLSystem, One, One).store
        s4 == CreateAtom(s3, "Goal", StrOptimizeWSLPerformance, 800, 900).store
    IN CreateAtom(s4, "Goal", StrEnsureSystemSecurity, One, One).store

\* Initialize, lines 68-71: the catch block.  m_cognitiveSystem keeps what
\* line 50 assigned to it.
InitializeCaught(m, sys) ==
    [manager |-> [m EXCEPT !.initialized = FALSE], system |-> sys, ret |-> FALSE]

\* CognitiveIntegrationManager::Initialize on the manager m and the system
\* sys it owns (if any).
ManagerInitialize(m, sys, failAt) ==
    IF m.initialized THEN [manager |-> m, system |-> sys, ret |-> TRUE]
    ELSE IF failAt = 0 THEN InitializeCaught(m, sys)
    ELSE LET m1 == [m EXCEPT !.initialized = TRUE, !.system = TRUE]
             s0 == SystemInitialize(NewSystem(sys.store.nextId, sys.constructed))
             s1 == [s0 EXCEPT !.store = InitializeWslAtoms(s0.store)]
         IN CHOOSE after \in
                {IF r.threw THEN InitializeCaught(r.manager, r.system)
                 ELSE [manager |-> r.manager, system |-> r.system, ret |-> TRUE] :
                    r \in {CreateDefaultAgents(m1, s1, 1, failAt)}} : TRUE

\* CognitiveIntegrationManager::Shutdown
ManagerShutdown(m, sys) ==
    IF ~m.initialized THEN [manager |-> m, system |-> sys]
    ELSE [manager |-> [m EXCEPT !.initialized = FALSE, !.system = FALSE,
                                !.processMapping = NoAgents],
          system |-> IF m.system THEN NullSystem(sys.store.nextId, sys.constructed)
                     ELSE sys]

\* UpdateCognitiveKnowledge(concept, information, confidence) on the store.
UpdateCognitiveKnowledge(st, concept, information, confidence) ==
    LET c == CreateAtom(st, "Concept", concept, 500, confidence)
        i == CreateAtom(c.store, "Memory", concept \o StrInfo \o information, 800,
                        confidence)
        linked == WithAtom(i.store, c.ret, AddOutgoingLink(i.store.heap[c.ret], i.ret))
    IN WithAtom(linked, c.ret,
                SetAttention(linked.heap[c.ret], linked.heap[c.ret].attention + 100))

\* ProcessWslEvent(eventType, source, data): no callback is registered.
ProcessWslEvent(m, sys, eventType, source, data) ==
    IF m.system
    THEN SystemBroadcast(sys, eventType \o StrColon \o source \o StrColon \o data)
    ELSE sys

\* "Process:" + distroId + ":" + std::to_string(processId)
ProcessName(distroId, processId) ==
    StrProcess \o distroId \o StrColon \o to_string(processId)



\* m_stats.eventsHandled++
EventHandled(stats) == [stats EXCEPT !.eventsHandled = @ + 1]

\* OnProcessCreate(distroId, processId, command)
OnProcessCreate(m, sys, distroId, processId, command) ==
    IF ~m.system THEN [manager |-> m, system |-> sys]
    ELSE LET processName == ProcessName(distroId, processId)
             p == CreateAtom(sys.store, "Process", processName, One, 800)
             c == CreateAtom(p.store, "Concept", StrCommand \o command, 700, 600)
             st == WithAtom(c.store, p.ret, AddOutgoingLink(c.store.heap[p.ret], c.ret))
             s1 == ProcessWslEvent(m, [sys EXCEPT !.store = st], StrProcessCreate, distroId,
                                   processName \o StrColon \o command)
         IN [manager |-> [m EXCEPT !.processMapping = Extend(@, processName, processId),
                                   !.stats = EventHandled(
                                       [@ EXCEPT !.processesMonitored = @ + 1])],
             system |-> s1]

\* OnProcessDestroy(distroId, processId, exitCode)
OnProcessDestroy(m, sys, distroId, processId, exitCode) ==
    IF ~m.system THEN [manager |-> m, system |-> sys]
    ELSE LET processName == ProcessName(distroId, processId)
             processAtom == FindAtom(sys.store, processName)
             truthValue == IF exitCode = 0 THEN One ELSE 300
             st0 == WithAtom(sys.store, processAtom,
                             SetTruthValue(sys.store.heap[processAtom], truthValue,
                                           sys.store.heap[processAtom].confidence + 100))
             mem == CreateAtom(st0, "Memory",
                               StrCompletion \o processName \o StrColon \o to_string(exitCode),
                               truthValue, 900)
             st == IF processAtom = Null THEN sys.store
                   ELSE WithAtom(mem.store, processAtom,
                                 AddOutgoingLink(mem.store.heap[processAtom], mem.ret))
             s1 == ProcessWslEvent(m, [sys EXCEPT !.store = st], StrProcessDestroy, distroId,
                                   processName \o StrColon \o to_string(exitCode))
         IN [manager |-> [m EXCEPT !.processMapping = Without(@, {processName}),
                                   !.stats = EventHandled(@)],
             system |-> s1]

\* OnDistroEvent(distroId, eventType, data)
OnDistroEvent(m, sys, distroId, eventType, data) ==
    IF ~m.system THEN [manager |-> m, system |-> sys]
    ELSE LET st == UpdateCognitiveKnowledge(sys.store, StrDistro \o distroId,
                                            eventType \o StrColon \o data, 800)
             s1 == ProcessWslEvent(m, [sys EXCEPT !.store = st], StrDistroEvent, distroId,
                                   eventType \o StrColon \o data)
         IN [manager |-> [m EXCEPT !.stats = EventHandled(@)], system |-> s1]

\* OnSystemEvent(eventType, data)
OnSystemEvent(m, sys, eventType, data) ==
    IF ~m.system THEN [manager |-> m, system |-> sys]
    ELSE LET st == UpdateCognitiveKnowledge(sys.store, StrSystem,
                                            eventType \o StrColon \o data, 900)
             s1 == ProcessWslEvent(m, [sys EXCEPT !.store = st], StrSystemEvent,
                                   StrSystemLower, eventType \o StrColon \o data)
         IN [manager |-> [m EXCEPT !.stats = EventHandled(@)], system |-> s1]

\* A call of the manager's owner returns with one of the results.
ManagerReturns(results, op) ==
    \E r \in results :
        /\ SystemCall
        /\ manager' = r.manager
        /\ SetSystem(r.system)
        /\ lastOp' = [op |-> op, pre |-> manager]
        /\ UNCHANGED <<caller, terminated, sysCall>>

ManagerInitializeCall ==
    \E failAt \in InitializeFailures :
        ManagerReturns({ManagerInitialize(manager, ManagerSystem, failAt)}, "ManagerInitialize")

ManagerShutdownCall ==
    ManagerReturns({ManagerShutdown(manager, ManagerSystem)}, "ManagerShutdown")

OnProcessCreateCall ==
    \E distroId \in DistroIds, processId \in ProcessIds, command \in Commands :
        ManagerReturns({OnProcessCreate(manager, ManagerSystem, distroId, processId, command)},
                       "OnProcessCreate")

OnProcessDestroyCall ==
    \E distroId \in DistroIds, processId \in ProcessIds, exitCode \in ExitCodes :
        ManagerReturns({OnProcessDestroy(manager, ManagerSystem, distroId, processId, exitCode)},
                       "OnProcessDestroy")

OnDistroEventCall ==
    \E distroId \in DistroIds, eventType \in EventTypes, data \in EventData :
        ManagerReturns({OnDistroEvent(manager, ManagerSystem, distroId, eventType, data)},
                       "OnDistroEvent")

OnSystemEventCall ==
    \E eventType \in EventTypes, data \in EventData :
        ManagerReturns({OnSystemEvent(manager, ManagerSystem, eventType, data)},
                       "OnSystemEvent")

\* The manager as constructed.
InitManager ==
    /\ SetInit(NullSystem(1, 0).store)
    /\ NoAgentState
    /\ budget = [cycles |-> 0, calls |-> MaxCalls + 2]
    /\ lastOp = [op |-> "none"]

NextManager ==
    \/ ManagerInitializeCall
    \/ ManagerShutdownCall
    \/ OnProcessCreateCall
    \/ OnProcessDestroyCall
    \/ OnDistroEventCall
    \/ OnSystemEventCall

SpecManager == InitManager /\ [][NextManager]_vars

(***************************************************************************)
(* Properties of the CognitiveSystem (checked under SpecSystem).           *)
(***************************************************************************)
\* C15: CreateAgent(name) on a registered name returns the object the registry
\* holds, the one the creating call returned and GetAgent(name) returns; it
\* adds no entry, constructs nothing, adds no goal and leaves the agent's
\* state; and between calls only RemoveAgent and Shutdown change an entry.
C15_CreateAgentIdempotent ==
    /\ [](lastOp.op = "CreateAgent" => GetAgent(m_agents, lastOp.name) = lastOp.ret)
    /\ [][\A n \in DOMAIN m_agents :
            lastOp'.op \notin {"RemoveAgent", "Shutdown"} =>
                /\ n \in DOMAIN m_agents' /\ m_agents'[n] = m_agents[n]
                /\ (lastOp'.op = "CreateAgent" /\ lastOp'.name = n) =>
                      /\ lastOp'.ret = m_agents[n]
                      /\ m_agents' = m_agents
                      /\ constructed' = constructed
                      /\ m_goals'[n] = m_goals[n]
                      /\ m_state'[n] = m_state[n]]_vars

\* C15 witness: CreateAgent was called again for an agent that has been
\* started since it was created.
C15_Witness ==
    /\ lastOp.op = "CreateAgent"
    /\ lastOp.found
    /\ m_state[lastOp.name] # "Inactive"
    /\ Len(m_goals[lastOp.name]) = 1

\* C16 as claimed: after the first CreateAgent(name), whatever the store held,
\* the new agent's goal list contains the Goal node named "AgentGoal:"+name
\* (truth 0.5, confidence 0.8 when newly created) and the agent is Inactive.
C16_FirstCreateAttachesGoal ==
    (lastOp.op = "CreateAgent" /\ ~lastOp.found) =>
        /\ m_state[lastOp.name] = "Inactive"
        /\ \E i \in 1..Len(m_goals[lastOp.name]) :
              LET goal == heap[m_goals[lastOp.name][i]]
              IN /\ goal.type = "Goal"
                 /\ goal.name = StrAgentGoal \o lastOp.name
                 /\ lastOp.goalFresh => (goal.truth = 500 /\ goal.confidence = 800)

\* C17: after RemoveAgent(name) returned true the name is not in
\* GetAgentNames(), GetAgent(name) is null and the agent's thread has exited;
\* RemoveAgent of an unregistered name returns false and leaves the registry
\* and every agent as they were.
C17_RemoveAgent ==
    lastOp.op = "RemoveAgent" =>
        /\ lastOp.ret = RegistryFind(lastOp.pre.registry, lastOp.name)
        /\ IF lastOp.ret
           THEN /\ lastOp.name \notin GetAgentNames(m_agents)
                /\ GetAgent(m_agents, lastOp.name) = Null
                /\ lastOp.exited
                /\ lastOp.name \in agents => thread[lastOp.name] # "running"
           ELSE SystemSnapshot = lastOp.pre

\* C17 witness: RemoveAgent returned true for an agent whose thread was
\* running when the call was made.
C17_Witness ==
    /\ lastOp.op = "RemoveAgent"
    /\ lastOp.ret
    /\ lastOp.pre.thread[lastOp.name] = "running"
    /\ lastOp.pre.state[lastOp.name] # "Inactive"

\* C18 as claimed: after Shutdown() returned, no agent that was registered has
\* a running thread and the registry is empty; a Shutdown() right after a
\* Shutdown() changes nothing.
C18_ShutdownStopsAll ==
    lastOp.op = "Shutdown" =>
        /\ m_agents = NoAgents
        /\ \A a \in DOMAIN lastOp.pre.registry : a \notin agents \/ thread[a] # "running"
        /\ lastOp.again => SystemSnapshot = lastOp.pre

\* C19 as claimed: on an initialized system holding the "OptimizePerformance"
\* goal, UpdateSystem() resumes an Inactive agent whenever fewer than half of
\* the registered agents are active and one is Inactive, and changes no
\* agent's state when at least half are active.
C19_UpdateSystemResumes ==
    (lastOp.op = "UpdateSystem" /\ lastOp.initialized /\ lastOp.holdsGoal) =>
        /\ (2 * lastOp.stats.activeAgents < lastOp.stats.totalAgents
                /\ lastOp.inactive # {}) =>
              (lastOp.resumed # {} /\ lastOp.resumed \subseteq lastOp.inactive)
        /\ 2 * lastOp.stats.activeAgents >= lastOp.stats.totalAgents =>
              (lastOp.resumed = {} /\ m_state = lastOp.pre)

(***************************************************************************)
(* Properties of the Plan stage (checked under SpecPlan).                  *)
(***************************************************************************)
\* The goals of the planning agent whose truth was below 0.8 before the stage.
Unachieved(a, pre) ==
    {m_goals[a][i] : i \in {j \in 1..Len(m_goals[a]) : pre.heap[m_goals[a][j]].truth < 800}}

\* The names Plan gives the plan nodes of a set of goals.
PlanNames(pre, goals) == {StrPlan \o pre.heap[g].name : g \in goals}

\* C20 as claimed: after a Plan stage every goal with truth < 0.8 has in its
\* outgoing links a Process node named "Plan:"+goalName that is in the store
\* (truth 0.5, confidence 0.8 when the stage created it); goals with truth
\* >= 0.8 get no node and no link.
C20_PlanLinksProcess ==
    lastOp.op = "Plan" =>
        LET a == lastOp.agent
            pre == lastOp.pre
        IN /\ \A g \in Unachieved(a, pre) :
                 LET name == StrPlan \o pre.heap[g].name
                 IN /\ name \in DOMAIN m_atomsByName
                    /\ heap[m_atomsByName[name]].type = "Process"
                    /\ SeqContains(heap[g].outgoing, m_atomsByName[name])
                    /\ name \notin DOMAIN pre.byName =>
                          /\ heap[m_atomsByName[name]].truth = 500
                          /\ heap[m_atomsByName[name]].confidence = 800
           /\ DOMAIN m_atomsByName \ DOMAIN pre.byName \subseteq PlanNames(pre, Unachieved(a, pre))
           /\ \A i \in 1..Len(m_goals[a]) :
                 m_goals[a][i] \notin Unachieved(a, pre) =>
                     heap[m_goals[a][i]] = pre.heap[m_goals[a][i]]

\* C20 amended: after a Plan stage every goal with truth < 0.8 has in its
\* outgoing links the node the store binds to "Plan:"+goalName; that node is a
\* Process node with truth 0.5 and confidence 0.8 when the stage created it,
\* and the node already bound, unchanged, otherwise; goals with truth >= 0.8
\* get no node and no link.
C20_PlanLinksNamedNode ==
    lastOp.op = "Plan" =>
        LET a == lastOp.agent
            pre == lastOp.pre
        IN /\ \A g \in Unachieved(a, pre) :
                 LET name == StrPlan \o pre.heap[g].name
                 IN /\ name \in DOMAIN m_atomsByName
                    /\ SeqContains(heap[g].outgoing, m_atomsByName[name])
                    /\ IF name \in DOMAIN pre.byName
                       THEN /\ m_atomsByName[name] = pre.byName[name]
                            /\ heap[m_atomsByName[name]].type = pre.heap[pre.byName[name]].type
                            /\ heap[m_atomsByName[name]].truth = pre.heap[pre.byName[name]].truth
                            /\ heap[m_atomsByName[name]].confidence
                                  = pre.heap[pre.byName[name]].confidence
                       ELSE /\ heap[m_atomsByName[name]].type = "Process"
                            /\ heap[m_atomsByName[name]].truth = 500
                            /\ heap[m_atomsByName[name]].confidence = 800
           /\ DOMAIN m_atomsByName \ DOMAIN pre.byName \subseteq PlanNames(pre, Unachieved(a, pre))
           /\ \A i \in 1..Len(m_goals[a]) :
                 m_goals[a][i] \notin Unachieved(a, pre) =>
                     heap[m_goals[a][i]] = pre.heap[m_goals[a][i]]

\* C20 witness: a Plan stage ran with one goal below 0.8 whose plan name was
\* bound to a node of another type, and one goal at or above 0.8.
C20_Witness ==
    /\ lastOp.op = "Plan"
    /\ \E g \in Unachieved(lastOp.agent, lastOp.pre) :
          /\ StrPlan \o lastOp.pre.heap[g].name \in DOMAIN lastOp.pre.byName
          /\ heap[m_atomsByName[StrPlan \o lastOp.pre.heap[g].name]].type # "Process"
          /\ SeqContains(heap[g].outgoing, m_atomsByName[StrPlan \o lastOp.pre.heap[g].name])
    /\ \E i \in 1..Len(m_goals[lastOp.agent]) :
          m_goals[lastOp.agent][i] \notin Unachieved(lastOp.agent, lastOp.pre)

(***************************************************************************)
(* Properties of the Act stage (checked under SpecAct).                    *)
(***************************************************************************)
\* Act's test of a node: a name starting with "Plan:" and a truth above 0.4.
Advanced(atom) == Substr(atom.name, 0, 5) = StrPlan /\ atom.truth > 400

C22_FailureCaught ==
    /\ [](lastOp.op = "Throw" =>
            /\ ~terminated
            /\ thread[lastOp.agent] = "running"
            /\ m_state[lastOp.agent] = "Error"
            /\ pc[lastOp.agent] = "check")
    /\ [](lastOp.op = "Perceive" => m_state[lastOp.agent] = "Active")
    /\ [][\A a \in agents :
            (pc[a] = "check" /\ pc'[a] # "check") =>
                IF m_shouldStop[a]
                THEN thread'[a] = "finished" /\ pc'[a] = "done"
                ELSE thread'[a] = "running" /\ pc'[a] = "perceive"]_vars

\* C22 witness: a Perceive stage ran in state Error, after a failed stage, and
\* set the state back to Active.
C22_Witness ==
    /\ lastOp.op = "Perceive"
    /\ lastOp.state = "Error"
    /\ m_state[lastOp.agent] = "Active"
    /\ thread[lastOp.agent] = "running"

(***************************************************************************)
(* Properties of BroadcastMessage (checked under SpecBroadcast).           *)
(***************************************************************************)
\* C23 as claimed: after BroadcastMessage("m") returned, every agent that was
\* registered has exactly one more entry at the end of its memory list, the
\* store's node named "Message:System:m" (a Memory node with truth 1.0 and
\* confidence 0.9 when the call created it); the registry and the agents'
\* states are as before.
C23_BroadcastDelivers ==
    lastOp.op = "BroadcastMessage" =>
        /\ \A a \in DOMAIN lastOp.pre.registry :
              /\ StrMessageSystemM \in DOMAIN m_atomsByName
              /\ m_memories[a] = Append(lastOp.pre.memories[a],
                                        m_atomsByName[StrMessageSystemM])
              /\ StrMessageSystemM \notin DOMAIN lastOp.pre.byName =>
                    /\ heap[m_atomsByName[StrMessageSystemM]].type = "Memory"
                    /\ heap[m_atomsByName[StrMessageSystemM]].truth = One
                    /\ heap[m_atomsByName[StrMessageSystemM]].confidence = 900
        /\ m_agents = lastOp.pre.registry
        /\ m_state = lastOp.pre.state

(***************************************************************************)
(* Properties of the agent's lifecycle (checked under SpecAgent).          *)
(***************************************************************************)
\* C24 as claimed: whatever Start, Pause, Resume and Stop calls came before, a
\* Start() that goes on to spawn an execution context (it found the state
\* Inactive) finds no earlier context of the agent still unjoined.
C24_SingleContext ==
    (lastOp.op = "Start" /\ lastOp.pre = "Inactive") => ~lastOp.joinable

\* C25 as claimed: in every reachable state an agent whose state is Active,
\* Learning, Planning, Executing or SelfModifying has a running execution
\* context.
C25_ActiveHasContext ==
    \A a \in agents : m_state[a] \in ActiveStates => thread[a] = "running"

(***************************************************************************)
(* Properties of the cycle (checked under SpecCycle).                      *)
(***************************************************************************)
\* The step of the loop that a stage, or the failure of a stage, comes next to.
Precedes(prev, stage) ==
    CASE stage = "perceive"   -> prev.op = "LoopCheck"
      [] stage = "reason"     -> prev.op = "Perceive"
      [] stage = "plan"       -> prev.op = "Reason"
      [] stage = "act"        -> prev.op = "Plan"
      [] stage = "learn"      -> prev.op = "Act"
      [] stage = "selfmodify" -> prev.op = "Draw" /\ prev.selected

\* The stage, as a position of the loop, of a stage as an operation.
StageOf(op) ==
    CASE op = "Perceive"   -> "perceive"
      [] op = "Reason"     -> "reason"
      [] op = "Plan"       -> "plan"
      [] op = "Act"        -> "act"
      [] op = "Learn"      -> "learn"
      [] op = "SelfModify" -> "selfmodify"

\* C26: the thread runs a stage, or fails in it, only right after the stage
\* before it in the order Perceive, Reason, Plan, Act, Learn completed in the
\* same cycle (SelfModify after Learn and the draw that selects it, Perceive
\* after the loop test); a new cycle starts only after the wait that ends a
\* cycle or after a failed stage, so each stage runs at most once per cycle
\* and the stage after a failed one is Perceive.
C26_StagesInOrder ==
    [][/\ lastOp'.op \in StageOps => Precedes(lastOp, StageOf(lastOp'.op))
       /\ lastOp'.op = "Throw" => Precedes(lastOp, lastOp'.stage)
       /\ lastOp'.op = "Draw" => lastOp.op = "Learn"
       /\ lastOp'.op = "Wait" =>
             (lastOp.op = "SelfModify" \/ (lastOp.op = "Draw" /\ ~lastOp.selected))
       /\ lastOp'.op = "LoopCheck" => lastOp.op \in {"Start", "Wait", "Throw"}
       /\ lastOp'.op \in StageOps \cup {"Throw", "Draw", "Wait", "LoopCheck"}]_vars

\* C26 witness: SelfModify ran at the end of the second cycle of a thread.
C26_Witness ==
    /\ lastOp.op = "SelfModify"
    /\ budget.cycles = MaxCycles - 2
    /\ m_state[lastOp.agent] = "SelfModifying"
    /\ pc[lastOp.agent] = "wait"

\* The substate the agent's state machine has for a stage.
Substate(op) ==
    CASE op = "Learn"      -> "Learning"
      [] op = "Plan"       -> "Planning"
      [] op = "Act"        -> "Executing"
      [] op = "SelfModify" -> "SelfModifying"

\* C27 as claimed: each of the stages Learn, Plan, Act and SelfModify sets the
\* agent's state to its own substate, so with nothing but the thread writing
\* the state, the state is that substate when the stage has run.
C27_StageSetsSubstate ==
    lastOp.op \in {"Learn", "Plan", "Act", "SelfModify"} =>
        m_state[lastOp.agent] = Substate(lastOp.op)

(***************************************************************************)
(* Properties of the Perceive stage (checked under SpecPerceive).          *)
(***************************************************************************)
\* The stored nodes whose attention was above 0.7 when the stage began.
Perceived(pre) == {pre.atoms[k] : k \in {j \in DOMAIN pre.atoms :
                                            pre.heap[pre.atoms[j]].attention > 700}}

\* The name of the memory of a perceived node.
MemoryName(pre, p) == StrPerceived \o pre.heap[p].name

\* The entries a stage appended to a list that was found before it.
Appended(found, list) == SubSeq(list, Len(found) + 1, Len(list))

\* C28: after a Perceive stage, for every node N whose attention was > 0.7
\* the store has a node named "Perceived:"+N.name and the stage appended
\* exactly one reference to it to the agent's memory list; it appended nothing
\* else, created no other node and kept the entries the list had.
C28_PerceiveAppends ==
    lastOp.op = "Perceive" =>
        LET pre == lastOp.pre
            list == m_memories[lastOp.agent]
            new == Appended(lastOp.found, list)
        IN /\ Len(list) >= Len(lastOp.found)
           /\ SubSeq(list, 1, Len(lastOp.found)) = lastOp.found
           /\ \A p \in Perceived(pre) :
                 /\ MemoryName(pre, p) \in DOMAIN m_atomsByName
                 /\ Cardinality({i \in 1..Len(new) :
                                    new[i] = m_atomsByName[MemoryName(pre, p)]}) = 1
           /\ Len(new) = Cardinality(Perceived(pre))
           /\ DOMAIN m_atomsByName \ DOMAIN pre.byName
                 \subseteq {MemoryName(pre, p) : p \in Perceived(pre)}

\* C28 witness: a Perceive stage perceived two nodes, one whose memory name
\* was bound and one whose was not, and left nodes at attention 0.7 and below
\* unperceived.
C28_Witness ==
    /\ lastOp.op = "Perceive"
    /\ Cardinality(Perceived(lastOp.pre)) = 2
    /\ Len(m_memories[lastOp.agent]) = Len(lastOp.found) + 2
    /\ \E p \in Perceived(lastOp.pre) : MemoryName(lastOp.pre, p) \in DOMAIN lastOp.pre.byName
    /\ \E p \in Perceived(lastOp.pre) : MemoryName(lastOp.pre, p) \notin DOMAIN lastOp.pre.byName
    /\ \E p \in DOMAIN lastOp.pre.heap : lastOp.pre.heap[p].attention = 700

\* C29 as claimed: every memory node appended by a Perceive stage carries the
\* truth and the confidence its source node had during that stage, in the
\* first perception of the source and in later ones.
C29_MemoryCarriesSource ==
    lastOp.op = "Perceive" =>
        \A p \in Perceived(lastOp.pre) :
           LET memory == heap[m_atomsByName[MemoryName(lastOp.pre, p)]]
           IN /\ memory.truth = lastOp.pre.heap[p].truth
              /\ memory.confidence = lastOp.pre.heap[p].confidence

\* C29 amended: a memory node that the Perceive stage created is a Memory node
\* with the truth and the confidence its source node had during that stage; a
\* node already bound to the name is appended as it was, its type, truth and
\* confidence unchanged.
C29_MemoryCarriesSourceWhenCreated ==
    lastOp.op = "Perceive" =>
        \A p \in Perceived(lastOp.pre) :
           LET name == MemoryName(lastOp.pre, p)
               memory == heap[m_atomsByName[name]]
           IN IF name \in DOMAIN lastOp.pre.byName
              THEN /\ m_atomsByName[name] = lastOp.pre.byName[name]
                   /\ memory = lastOp.pre.heap[lastOp.pre.byName[name]]
              ELSE /\ memory.type = "Memory"
                   /\ memory.truth = lastOp.pre.heap[p].truth
                   /\ memory.confidence = lastOp.pre.heap[p].confidence

\* C29 witness: a Perceive stage after the first perceived a plan whose truth
\* Act had raised since its memory was created, and appended that memory.
C29_Witness ==
    /\ lastOp.op = "Perceive"
    /\ budget.cycles < MaxCycles - 1
    /\ \E p \in Perceived(lastOp.pre) :
          LET name == MemoryName(lastOp.pre, p)
          IN /\ name \in DOMAIN lastOp.pre.byName
             /\ heap[p].type = "Process"
             /\ heap[m_atomsByName[name]].type = "Memory"
             /\ heap[m_atomsByName[name]].truth < heap[p].truth
             /\ \E i \in Len(lastOp.found) + 1 .. Len(m_memories[lastOp.agent]) :
                   m_memories[lastOp.agent][i] = m_atomsByName[name]

(***************************************************************************)
(* Properties of the Reason stage (checked under SpecReason).              *)
(***************************************************************************)
\* Reason as its comment at line 304 describes it ("Remove "Perceived:"
\* prefix"): for a memory named "Perceived:"+N the related nodes are the
\* Concept nodes whose name contains N; their update is that of lines 308-313.
RECURSIVE ReasonRemovingPrefix(_, _, _)
ReasonRemovingPrefix(st, mems, order) ==
    IF mems = <<>> THEN st
    ELSE LET memory == Head(mems)
             name == st.heap[memory].name
             key == SubstrFrom(name, Len(StrPerceived))
             Related(a) == a.type = "Concept" /\ Contains(a.name, key)
         IN IF Substr(name, 0, Len(StrPerceived)) = StrPerceived
            THEN ReasonRemovingPrefix(
                     ReasonRelated(st, memory,
                         Query(st, order, [p \in DOMAIN st.heap |-> Related(st.heap[p])])),
                     Tail(mems), order)
            ELSE ReasonRemovingPrefix(ReasonOne(st, memory, order), Tail(mems), order)

\* C30 as claimed: for each memory of the list named "Perceived:"+N, in list
\* order, Reason gives every Concept node whose name contains N (a perceived
\* Concept named N included) the mean of its truth and the memory's truth and
\* 1.1 times its confidence, capped at 1, and changes no other node.
C30_ReasonUpdatesNamed ==
    lastOp.op = "Reason" =>
        \E order \in TableOrders(lastOp.pre) :
           heap = ReasonRemovingPrefix(lastOp.pre, lastOp.found, order).heap

(***************************************************************************)
(* Properties of the Plan and Act stages together (checked under SpecCycle).*)
(***************************************************************************)
\* The goals of agent a that, in store st, carry the link that Plan adds at
\* line 325 to a plan "Plan:"+name that the Act stage advances.
LinkedAdvanced(st, a) ==
    { g \in {m_goals[a][i] : i \in DOMAIN m_goals[a]} :
         \E p \in DOMAIN st.heap :
            /\ SeqContains(st.heap[g].outgoing, p)
            /\ st.heap[p].type = "Process"
            /\ st.heap[p].name = StrPlan \o st.heap[g].name
            /\ st.heap[p].truth > 400 }

\* C31 as claimed: when a Plan stage linked a goal to its plan "Plan:"+name and
\* an Act stage advances that plan, the Act stage raises the goal's truth by
\* 0.05, capped at 1.0, and leaves its confidence unchanged.
C31_ActRaisesLinkedGoal ==
    lastOp.op = "Act" =>
        \A g \in LinkedAdvanced(lastOp.pre, lastOp.agent) :
           /\ heap[g].truth = Clamp(lastOp.pre.heap[g].truth + 50, 0, One)
           /\ heap[g].confidence = lastOp.pre.heap[g].confidence

(***************************************************************************)
(* Properties of the Learn stage (checked under SpecLearn).                *)
(***************************************************************************)
\* Learn, line 356: the test that selects the Concept nodes strengthened.
Strengthened(atom) == atom.type = "Concept" /\ atom.attention > 500

\* C32 as claimed: a Learn stage raises by 0.01, capped at 1.0, the confidence
\* of every Concept node whose attention is > 0.5 and leaves its truth
\* unchanged; it changes the truth, confidence and attention of no other node.
C32_LearnStrengthens ==
    lastOp.op = "Learn" =>
        \A p \in DOMAIN lastOp.pre.heap :
           LET before == lastOp.pre.heap[p]
           IN IF Strengthened(before)
              THEN /\ heap[p].confidence = (IF before.confidence + 10 > One THEN One
                                            ELSE before.confidence + 10)
                   /\ heap[p].truth = before.truth
                   /\ heap[p].attention = before.attention
              ELSE /\ heap[p].truth = before.truth
                   /\ heap[p].confidence = before.confidence
                   /\ heap[p].attention = before.attention

(***************************************************************************)
(* Properties of the SelfModify stage (checked under SpecSelfModify).      *)
(***************************************************************************)
\* SelfModify, lines 374-378: the test that selects the successful plans.
Successful(atom) ==
    atom.type = "Process" /\ Substr(atom.name, 0, 5) = StrPlan /\ atom.truth > 800

\* C33: after a SelfModify stage, for every Process node P named "Plan:..."
\* whose truth was > 0.8, the name "Rule:"+P.name is bound, the node it is
\* bound to is in P's outgoing links, and if the stage created that node it is
\* a Rule node with P's truth and confidence; for a plan whose truth was
\* <= 0.8 the stage binds no rule name and adds no link.
C33_SelfModifyMakesRules ==
    lastOp.op = "SelfModify" =>
        \A p \in DOMAIN lastOp.pre.heap :
           LET before == lastOp.pre.heap[p]
               name == StrRule \o before.name
           IN before.type = "Process" =>
                IF Successful(before)
                THEN /\ name \in DOMAIN m_atomsByName
                     /\ SeqContains(heap[p].outgoing, m_atomsByName[name])
                     /\ m_atomsByName[name] \in Stored
                     /\ name \notin DOMAIN lastOp.pre.byName =>
                           /\ heap[m_atomsByName[name]].type = "Rule"
                           /\ heap[m_atomsByName[name]].truth = before.truth
                           /\ heap[m_atomsByName[name]].confidence = before.confidence
                ELSE /\ heap[p].outgoing = before.outgoing
                     /\ name \in DOMAIN m_atomsByName => name \in DOMAIN lastOp.pre.byName

\* C33 witness: a SelfModify stage created the rule of a plan above 0.8 and
\* linked the plan to it, in a store with a plan at exactly 0.8 that has no rule.
C33_Witness ==
    /\ lastOp.op = "SelfModify"
    /\ \E p, q \in DOMAIN lastOp.pre.heap :
          /\ Successful(lastOp.pre.heap[p])
          /\ StrRule \o heap[p].name \notin DOMAIN lastOp.pre.byName
          /\ SeqContains(heap[p].outgoing, m_atomsByName[StrRule \o heap[p].name])
          /\ Substr(heap[q].name, 0, 5) = StrPlan
          /\ lastOp.pre.heap[q].truth = 800
          /\ StrRule \o heap[q].name \notin DOMAIN m_atomsByName

(***************************************************************************)
(* Properties of the agent's lists (checked under SpecPerceive).           *)
(***************************************************************************)
\* C34 as claimed: in every reachable state, whatever the store held before,
\* every entry of an agent's memory list is a Memory node and every entry of
\* its goal list is a Goal node.
C34_ListsAreTyped ==
    \A a \in agents :
       /\ \A i \in DOMAIN m_memories[a] : heap[m_memories[a][i]].type = "Memory"
       /\ \A i \in DOMAIN m_goals[a] : heap[m_goals[a][i]].type = "Goal"

(***************************************************************************)
(* Properties of RemoveAtom on a linked store (checked under SpecRemove).  *)
(***************************************************************************)
\* C35: RemoveAtom(id) of a stored node takes it out of both views, returns
\* true and leaves every node's outgoing and incoming lists and every agent's
\* goal and memory list as they were, the removed node still referenced by
\* them; RemoveAtom of an absent id returns false and changes nothing.
C35_RemoveLeavesReferences ==
    lastOp.op = "RemoveAtom" =>
        LET pre == lastOp.pre
        IN /\ m_goals = lastOp.goals
           /\ m_memories = lastOp.memories
           /\ heap = pre.heap
           /\ IF lastOp.id \in DOMAIN pre.atoms
              THEN LET name == pre.heap[pre.atoms[lastOp.id]].name
                   IN /\ lastOp.ret = TRUE
                      /\ m_atoms = [k \in DOMAIN pre.atoms \ {lastOp.id} |-> pre.atoms[k]]
                      /\ m_atomsByName = [n \in DOMAIN pre.byName \ {name} |-> pre.byName[n]]
              ELSE /\ lastOp.ret = FALSE
                   /\ Store = pre

\* C35 witness: a stored node was removed that is in an agent's goal list and
\* a stored node was removed that is in a goal's outgoing links and that some
\* memory-list entry stays next to; the lists still hold the removed node.
C35_Witness ==
    /\ lastOp.op = "RemoveAtom"
    /\ lastOp.ret = TRUE
    /\ lastOp.id \notin DOMAIN m_atoms
    /\ \E a \in agents :
          /\ m_memories[a] # <<>>
          /\ \E i \in DOMAIN m_goals[a] :
                /\ m_goals[a][i] \notin Stored
                /\ \E j \in DOMAIN heap[m_goals[a][i]].outgoing :
                      heap[m_goals[a][i]].outgoing[j] \notin Stored

(***************************************************************************)
(* Order dependence of the attention pass (checked under SpecAttention).   *)
(***************************************************************************)
\* The edges A -> B of heap h for which the claim's two formulas are exact:
\* A and B are distinct stored nodes, A is the only node that links to B and
\* no node links to A.
LoneEdges(h) ==
    {e \in Stored \X Stored :
        /\ e[1] # e[2]
        /\ SeqContains(h[e[1]].outgoing, e[2])
        /\ Sources(h, e[2]) = {e[1]}
        /\ Sources(h, e[1]) = {}}

\* C36: the result of one pass depends on the order in which the table is
\* visited: for an edge A -> B with s = 0.1*a/outCount(A), B ends at
\* max(0.01, 0.95*(b+s)) when A is visited before B and at max(0.01, 0.95*b)+s
\* when A is visited after B, and the pass that ran left one of the two.
C36_PassDependsOnOrder ==
    lastOp.op = "UpdateAttentionValues" =>
        \A e \in LoneEdges(lastOp.pre) :
           LET A == e[1]
               B == e[2]
               s == SpreadAmount(lastOp.pre[A].attention, Len(lastOp.pre[A].outgoing))
               b == lastOp.pre[B].attention
               before == Max(AttentionFloor, ((b + s) * 95) \div 100)
               after == Max(AttentionFloor, (b * 95) \div 100) + s
           IN /\ \A order \in TableOrders(Store) :
                    UpdateAttentionLoop(lastOp.pre, order)[B].attention =
                        IF Position(order, A) < Position(order, B) THEN before ELSE after
              /\ heap[B].attention \in {before, after}

\* C36 witness: a pass ran over a store with such an edge, and the two
\* visiting orders of that store give B two different attentions.
C36_Witness ==
    /\ lastOp.op = "UpdateAttentionValues"
    /\ \E e \in LoneEdges(lastOp.pre) :
          Cardinality({UpdateAttentionLoop(lastOp.pre, order)[e[2]].attention :
                          order \in TableOrders(Store)}) = 2

(***************************************************************************)
(* Unsynchronized field updates (checked under SpecRace).                  *)
(***************************************************************************)
\* C37: a node's fields are not synchronized between threads.  When two
\* agents have run Act on the same plan of truth t > 0.4, the plan is at
\* t + 0.1 (one update lost) if both read t and at t + 0.2 otherwise, capped
\* at 1.0; and the attention that UpdateAttentionValues writes to a node is
\* max(0.01, 0.95 * the attention it read), whatever SetAttention wrote to
\* the node in between.
C37_UpdatesCanBeLost ==
    LET plan == heap[m_atomsByName[StrPlan \o StrG]]
        t == lastOp.first.truth
    IN /\ (\A a \in SystemNames : pc[a].at = "done") =>
             plan.truth = IF t <= 400 THEN t
                          ELSE IF \A a \in SystemNames : pc[a].read = t
                               THEN Clamp(t + 100, 0, One)
                               ELSE Clamp(t + 200, 0, One)
       /\ lastOp.op = "PassWrite" => plan.attention = Decayed(sysCall.read)

\* C37 witness: both agents read t = 0.5 and the plan ended at 0.6, and the
\* pass wrote 0.95 * 0.5 over the 1.0 that SetAttention had stored since its read.
C37_Witness ==
    LET plan == heap[m_atomsByName[StrPlan \o StrG]]
    IN /\ \A a \in SystemNames : pc[a].at = "done" /\ pc[a].read = 500
       /\ lastOp.first.truth = 500
       /\ plan.truth = 600
       /\ lastOp.op = "PassWrite"
       /\ sysCall.overwritten
       /\ sysCall.read = DefaultAttention
       /\ plan.attention = Decayed(DefaultAttention)

(***************************************************************************)
(* Concurrent CreateAtom calls (checked under SpecCreate).                 *)
(***************************************************************************)
\* The nodes constructed with the name both callers pass.
Constructed == {p \in DOMAIN heap : heap[p].name = StrX}

\* C38: under any interleaving of CreateAtom calls with the same unbound
\* name, at most one node is ever constructed; once the calls have returned
\* exactly one is, it is registered in both tables and every caller got it;
\* and a concurrent lookup never sees the node in one table only.
C38_OneNodePerName ==
    /\ Cardinality(Constructed) <= 1
    /\ \A a \in SystemNames : pc[a].at = "done" => pc[a].ret \in Constructed
    /\ (\A a \in SystemNames : pc[a].at = "done") =>
          /\ Cardinality(Constructed) = 1
          /\ \A p \in Constructed :
                /\ m_atoms[heap[p].id] = p
                /\ m_atomsByName[StrX] = p
    /\ sysCall.op = "Lookup" => sysCall.byId = sysCall.byName

\* C38 witness: both calls have returned, one of them having waited for the
\* lock while the other was between the two insertions, and a lookup made
\* since saw the node in both tables.
C38_Witness ==
    /\ \A a \in SystemNames : pc[a].at = "done"
    /\ Cardinality(Constructed) = 1
    /\ sysCall.op = "Lookup"
    /\ sysCall.byId = Constructed
    /\ sysCall.byName = Constructed

(***************************************************************************)
(* Confinement of the agent's lists (checked under SpecBroadcast).         *)
(***************************************************************************)
\* C39 as claimed: no ReceiveMessage (here through BroadcastMessage) modifies
\* an agent's memory list while the agent's own thread is in a stage that
\* iterates or modifies that list (Perceive, Reason, Learn).
C39_ListsConfined ==
    /\ lastOp.op = "BroadcastMessage" =>
          \A a \in DOMAIN lastOp.pre.registry :
             ~(lastOp.pre.thread[a] = "running" /\ pc[a] \in MemoryStagePcs)
    /\ lastOp.op # "Crash"

(***************************************************************************)
(* Statistics of the CognitiveIntegrationManager (checked under            *)
(* SpecManager).                                                           *)
(***************************************************************************)
\* The four WSL event handlers.
EventHandlers == {"OnProcessCreate", "OnProcessDestroy", "OnDistroEvent", "OnSystemEvent"}

\* C40 as claimed: on an initialized manager (IsInitialized() is true) each
\* handler call adds exactly one to eventsHandled, and OnProcessCreate also
\* adds exactly one to processesMonitored; on a manager that is not
\* initialized, or was shut down, the same calls change no statistic.
C40_HandlersCountEvents ==
    lastOp.op \in EventHandlers =>
        IF lastOp.pre.initialized
        THEN /\ manager.stats.eventsHandled = lastOp.pre.stats.eventsHandled + 1
             /\ lastOp.op = "OnProcessCreate" =>
                   manager.stats.processesMonitored
                       = lastOp.pre.stats.processesMonitored + 1
        ELSE manager.stats = lastOp.pre.stats

====
